---- MODULE Spec2Model ----
(***************************************************************************)
(* A model of qsv-rust (src/src/main.rs, src/src/utils.rs,                 *)
(* src/src/constants.rs): the surface pools, the inter-stage copy, the     *)
(* bitstream flush and the two-stage driver loop of main().                *)
(*                                                                         *)
(* The Media SDK (the MFXVideoVPP, MFXVideoENCODE and MFXVideoCORE calls)  *)
(* is an                                                                   *)
(* external library: every status it returns and every write it makes to   *)
(* a surface, a lock counter or the bitstream is a nondeterministic choice *)
(* within what the doc comments of its extern declarations allow.          *)
(***************************************************************************)
EXTENDS Integers, Sequences, FiniteSets, TLC

(***************************************************************************)
(* Bounds of the model.                                                    *)
(***************************************************************************)
\* largest NumFrameSuggested the engine reports (a u16 in the code) for
\* the VPP input, the VPP output and the Encode input pool
MaxSurfIn == 1
MaxSurfOut == 2
MaxSurfEnc == 1
\* largest number of complete raw frames in the input file
MaxFrames == 3
\* width and height given on the command line in the driver runs
CliWidth == 2
CliHeight == 2
\* the engine's Query may correct the Encode crop to any w, h in 1..MaxDim
MaxDim == 2
\* the engine writes at most MaxChunk bytes of bitstream per frame
MaxChunk == 1
\* harness bounds: pool length, lock counter, surface bytes, byte values
MaxPool == 3
MaxLock == 2
MaxBytes == 4
MaxByte == 1
MaxCrop == 3

(***************************************************************************)
(* Status codes, src/src/constants.rs.                                     *)
(***************************************************************************)
MFX_ERR_NONE == 0
MFX_ERR_UNKNOWN == -1
MFX_ERR_NOT_ENOUGH_BUFFER == -5
MFX_ERR_NOT_FOUND == -9
MFX_ERR_MORE_DATA == -10
MFX_WRN_PARTIAL_ACCELERATION == 4
\* MFXVideoCORE_SyncOperation: "The specified asynchronous function is in
\* execution" (the wait timed out) and "aborted due to data dependency"
MFX_WRN_IN_EXECUTION == 1
MFX_ERR_ABORTED == -12

Min(a, b) == IF a < b THEN a ELSE b

(***************************************************************************)
(* utils.rs                                                                *)
(***************************************************************************)
U16 == 65536

\* align16(x: u16) = ((x + 15) >> 4) << 4, in u16 arithmetic (release build:
\* the addition and the shift wrap)
align16(x) == ((((x + 15) % U16) \div 16) * 16) % U16

\* x + 15 leaves the u16 range: with overflow checks (a debug build) the
\* addition panics, without them (a release build) it wraps
align16_overflows(x) == x + 15 >= U16

\* A u32 is kept as its two 16-bit halves [hi, lo], value hi * 2^16 + lo.
\* Halves(x) is "x as u32" for an x below 2^31, Value(v) is "v as usize"
\* (used for values below 2^31 only).
Halves(x) == [hi |-> (x \div U16) % U16, lo |-> x % U16]
Value(v) == v.hi * U16 + v.lo

\* u32 addition, wrapping, and whether it leaves the u32 range
wrapping_add(a, b) ==
    LET s == a.lo + b.lo
        h == a.hi + b.hi + s \div U16
    IN  [hi |-> h % U16, lo |-> s % U16]
add_overflows(a, b) == a.hi + b.hi + (a.lo + b.lo) \div U16 >= U16

\* align32(x: u32) = (x + 31) & !31
align32(x) ==
    LET s == wrapping_add(x, Halves(31))
    IN  [hi |-> s.hi, lo |-> (s.lo \div 32) * 32]
align32_overflows(x) == add_overflows(x, Halves(31))

\* x << k in u32, for k = 8, 16 or 24: the bits shifted out are dropped
shl(x, k) ==
    IF k >= 16
    THEN [hi |-> (x.lo * 2^(k - 16)) % U16, lo |-> 0]
    ELSE [hi |-> (((x.hi * 2^k) % U16) + ((x.lo * 2^k) \div U16)) % U16,
          lo |-> (x.lo * 2^k) % U16]

\* mutant: the first code goes to the top byte
MFX_MAKEFOURCC_bigendian(a, b, c, d) ==
    wrapping_add(wrapping_add(wrapping_add(Halves(d), shl(Halves(c), 8)),
                              shl(Halves(b), 16)),
                 shl(Halves(a), 24))

\* MFX_MAKEFOURCC!(a, b, c, d) =
\* a as u32 + ((b as u32) << 8) + ((c as u32) << 16) + ((d as u32) << 24)
MFX_MAKEFOURCC(a, b, c, d) ==
    wrapping_add(wrapping_add(wrapping_add(Halves(a), shl(Halves(b), 8)),
                              shl(Halves(c), 16)),
                 shl(Halves(d), 24))

\* whether one of the three additions leaves the u32 range
MFX_MAKEFOURCC_overflows(a, b, c, d) ==
    LET s1 == wrapping_add(Halves(a), shl(Halves(b), 8))
        s2 == wrapping_add(s1, shl(Halves(c), 16))
    IN  \/ add_overflows(Halves(a), shl(Halves(b), 8))
        \/ add_overflows(s1, shl(Halves(c), 16))
        \/ add_overflows(s2, shl(Halves(d), 24))

\* constants.rs: the character codes are 'N' = 78, 'V' = 86, 'Y' = 89,
\* '1' = 49, '2' = 50
MFX_FOURCC_NV12 == MFX_MAKEFOURCC(78, 86, 49, 50)
MFX_FOURCC_YV12 == MFX_MAKEFOURCC(89, 86, 49, 50)

(***************************************************************************)
(* GetFreeSurfaceIndex, main.rs 895-903.  A pool is a sequence of          *)
(* surfaces; TLA+ sequences start at 1, so surface i of the code is        *)
(* element i + 1 and the function returns a 0-based index as the code.     *)
(* The result is [ok |-> TRUE, idx |-> i] for Ok(i) and                    *)
(* [ok |-> FALSE, err |-> MFX_ERR_NOT_FOUND] for Err.                      *)
(***************************************************************************)
RECURSIVE ScanFree(_, _)
ScanFree(surfaces, i) ==
    IF i >= Len(surfaces) THEN [ok |-> FALSE, err |-> MFX_ERR_NOT_FOUND]
    ELSE IF surfaces[i + 1].Locked = 0 THEN [ok |-> TRUE, idx |-> i]
    ELSE ScanFree(surfaces, i + 1)

\* mutant: the scan starts at index 1 and so skips surface 0
GetFreeSurfaceIndex_skip0(surfaces) == ScanFree(surfaces, 1)

\* mutant: the loop runs over 0..len-1 and so never looks at the last surface
GetFreeSurfaceIndex_skiplast(surfaces) ==
    ScanFree(SubSeq(surfaces, 1, Len(surfaces) - 1), 0)

GetFreeSurfaceIndex(surfaces) == ScanFree(surfaces, 0)

(***************************************************************************)
(* A surface is [Info, Locked, Y]: Info holds CropW, CropH, Width, Height  *)
(* of mfxFrameInfo, Locked is Data.Locked, and Y is the memory found at    *)
(* the base pointer Data.Y, a sequence of bytes.  A surface of one of      *)
(* main's pools also has Ptr, the pointers Data.Y, Data.UV and Data.V as   *)
(* offsets into the pool's backing buffer.                                 *)
(***************************************************************************)
FrameInfo(w, h) ==
    [CropW |-> w % U16, CropH |-> h % U16,
     Width |-> align16(w % U16), Height |-> align16(h % U16)]

bits_per_pixel == 12

\* mutant: the division is done before the multiplication
CopySize_divfirst(info) == ((info.CropW * info.CropH) \div 8) * bits_per_pixel

\* w * h * bits_per_pixel / 8 of VppToEncSurface (usize arithmetic: the crop
\* fields are u16, so the product stays below 2^36 and does not wrap)
CopySize(info) == (info.CropW * info.CropH * bits_per_pixel) \div 8

\* mutant: one byte more than size is copied
CopyBytes_onemore(srcY, dstY, size) ==
    [i \in 1..Len(dstY) |-> IF i <= size + 1 THEN srcY[i] ELSE dstY[i]]

\* ptr::copy(ptr_src, ptr_dst, size): the first size bytes at dst become the
\* first size bytes at src
CopyBytes(srcY, dstY, size) ==
    [i \in 1..Len(dstY) |-> IF i <= size THEN srcY[i] ELSE dstY[i]]

\* mutant: the copy is made before the sizes are compared
VppToEncSurface_copyfirst(src, dst) ==
    LET size_src == CopySize(src.Info)
        size_dst == CopySize(dst.Info)
        copied == [dst EXCEPT !.Y = CopyBytes(src.Y, dst.Y, Min(size_src, Len(dst.Y)))]
    IN  IF size_src # size_dst
        THEN [ok |-> FALSE, sts |-> MFX_ERR_UNKNOWN, dst |-> copied]
        ELSE [ok |-> TRUE, sts |-> MFX_ERR_NONE, dst |-> copied]

\* VppToEncSurface, main.rs 946-977: Err(MFX_ERR_UNKNOWN) when the sizes
\* differ, else the flat copy and Ok(MFX_ERR_NONE); dst is the destination
\* surface after the call (src is a shared reference and is not written)
VppToEncSurface(src, dst) ==
    LET size_src == CopySize(src.Info)
        size_dst == CopySize(dst.Info)
    IN  IF size_src # size_dst
        THEN [ok |-> FALSE, sts |-> MFX_ERR_UNKNOWN, dst |-> dst]
        ELSE [ok |-> TRUE, sts |-> MFX_ERR_NONE,
              dst |-> [dst EXCEPT !.Y = CopyBytes(src.Y, dst.Y, size_src)]]

(***************************************************************************)
(* The bitstream is [Data, DataOffset, DataLength, MaxLength]; Data is the *)
(* buffer as a sequence of bytes.  file.write(buffer) answers n: the       *)
(* number of bytes the sink took, or -1 for an io error.                   *)
(***************************************************************************)
BitstreamSlice(bs) == SubSeq(bs.Data, bs.DataOffset + 1, bs.DataOffset + bs.DataLength)

\* mutant: DataLength is reset before the short-write test
WriteBitStreamFrame_resetfirst(bs, n) ==
    LET buffer == BitstreamSlice(bs) IN
    IF n < 0 THEN [res |-> "io", bs |-> bs, written |-> << >>]
    ELSE IF n # bs.DataLength
    THEN [res |-> "InvalidData", bs |-> [bs EXCEPT !.DataLength = 0],
          written |-> SubSeq(buffer, 1, n)]
    ELSE [res |-> "ok", bs |-> [bs EXCEPT !.DataLength = 0], written |-> buffer]

\* mutant: the slice handed to the sink starts at the buffer's base
WriteBitStreamFrame_nooffset(bs, n) ==
    LET buffer == SubSeq(bs.Data, 1, bs.DataLength) IN
    IF n < 0 THEN [res |-> "io", bs |-> bs, written |-> << >>]
    ELSE IF n # bs.DataLength
    THEN [res |-> "InvalidData", bs |-> bs, written |-> SubSeq(buffer, 1, n)]
    ELSE [res |-> "ok", bs |-> [bs EXCEPT !.DataLength = 0], written |-> buffer]

\* WriteBitStreamFrame, main.rs 979-992; written is what reached the sink
WriteBitStreamFrame(bs, n) ==
    LET buffer == BitstreamSlice(bs) IN
    IF n < 0 THEN [res |-> "io", bs |-> bs, written |-> << >>]
    ELSE IF n # bs.DataLength
    THEN [res |-> "InvalidData", bs |-> bs, written |-> SubSeq(buffer, 1, n)]
    ELSE [res |-> "ok", bs |-> [bs EXCEPT !.DataLength = 0], written |-> buffer]

(***************************************************************************)
(* The input file is [len, pos, max].  file.read(slice) fails (fail =      *)
(* TRUE) or gives the bytes at hand: at most the slice length, at most the *)
(* bytes left, and at most max, the most one read delivers (a regular file *)
(* delivers all that is left: max = len; a pipe or a device may deliver    *)
(* less).                                                                  *)
(***************************************************************************)
FileRead(f, req, fail) ==
    IF fail THEN [n |-> -1, f |-> f]
    ELSE LET n == Min(Min(req, f.len - f.pos), f.max)
         IN  [n |-> n, f |-> [f EXCEPT !.pos = @ + n]]

\* LoadRawFrame, main.rs 905-944.  errAt names the plane read that fails
\* with an io error (0: none).  The luma read is rejected only when it
\* returns 0 bytes; the chroma reads when they are short.
LoadRawFrame(info, f, errAt) ==
    LET size == info.CropW * info.CropH
        size_uv == size \div 4
        r1 == FileRead(f, size, errAt = 1)
        r2 == FileRead(r1.f, size_uv, errAt = 2)
        r3 == FileRead(r2.f, size_uv, errAt = 3)
    IN  IF r1.n < 0 \/ r1.n = 0 THEN [ok |-> FALSE, sts |-> MFX_ERR_MORE_DATA, f |-> r1.f]
        ELSE IF r2.n < 0 \/ r2.n # size_uv
             THEN [ok |-> FALSE, sts |-> MFX_ERR_MORE_DATA, f |-> r2.f]
        ELSE IF r3.n < 0 \/ r3.n # size_uv
             THEN [ok |-> FALSE, sts |-> MFX_ERR_MORE_DATA, f |-> r3.f]
        ELSE [ok |-> TRUE, sts |-> MFX_ERR_NONE, f |-> r3.f]

(***************************************************************************)
(* State of main(), main.rs 994-1313.                                      *)
(***************************************************************************)
VARIABLES
    pc,                 \* the statement main() is at
    exit,               \* "run", or how main ended: "Ok", "panic", or the Err returned
    sts,                \* let mut sts
    EncInfo,            \* EncParams.u.mfx.FrameInfo
    VPPRequest,         \* NumFrameSuggested of VPPRequest[0], VPPRequest[1]
    encRequest,         \* NumFrameSuggested and Info.Width, Info.Height of encRequest
    surface_buffers,    \* the lengths of the Vec<u8> surface_buffers_in, _out and _enc
    vpp_surfaces_in, vpp_surfaces_out, enc_surfaces,
    mfxBS, syncp_vpp, syncp_enc, nFrame,
    file_in,            \* [len, pos, max] of the input file
    file_out,           \* the bytes written to the output file
    nSurfIdxIn, nSurfIdxOut, nEncSurfIdx,
    engine,             \* what the SDK holds: its pending operations, the number of the
                        \* raw frame last loaded, how many frames Encode has cached
    calls               \* how often Init and Close were called on each stage, and how
                        \* often EncodeFrameAsync answered MFX_ERR_NONE

\* the states of the harnesses (pool, flush, copy, load, arithmetic)
VARIABLES
    pool,               \* pool harness: a pool
    acquired,           \* the results of the GetFreeSurfaceIndex calls made on it since
                        \* its lock counters last changed
    released,           \* the index of the surface last unlocked to 0, or -1
    hbs, hsink,         \* flush harness: a bitstream and the bytes the sink holds
    hflush,             \* the result of WriteBitStreamFrame and the bitstream before it
    hsrc, hdst,         \* copy harness: the two surfaces
    hcopy,              \* the result of VppToEncSurface and the destination before it
    hfile,              \* load harness: the input file
    hload,              \* the surface's Info, the result of LoadRawFrame and the file before it
    harith              \* arithmetic harness: a function of utils.rs or the geometry of
                        \* main.rs, its arguments, whether the build checks overflow,
                        \* and its result

driverVars == <<pc, exit, sts, EncInfo, VPPRequest, encRequest, surface_buffers, vpp_surfaces_in,
                vpp_surfaces_out, enc_surfaces, mfxBS, syncp_vpp, syncp_enc, nFrame,
                file_in, file_out, nSurfIdxIn, nSurfIdxOut, nEncSurfIdx, engine, calls>>
poolVars == <<pool, acquired, released>>
flushVars == <<hbs, hsink, hflush>>
copyVars == <<hsrc, hdst, hcopy>>
loadVars == <<hfile, hload>>
arithVars == <<harith>>
harnessVars == <<poolVars, flushVars, copyVars, loadVars, arithVars>>
vars == <<driverVars, harnessVars>>

\* VppParams.u.vpp.In and .Out, main.rs 1030-1053: both are built from the
\* command line's width and height
VppInInfo == FrameInfo(CliWidth, CliHeight)
VppOutInfo == FrameInfo(CliWidth, CliHeight)

\* bytes of one raw frame in the input file, as LoadRawFrame reads them
LumaBytes == VppInInfo.CropW * VppInInfo.CropH
ChromaBytes == LumaBytes \div 4
FrameBytes == LumaBytes + 2 * ChromaBytes

\* input files: k complete frames, then nothing or a luma plane alone
FileLens == {k * FrameBytes + r : k \in 0..MaxFrames, r \in {0, LumaBytes}}

\* statuses the SDK answers with
SetupStatuses == {MFX_ERR_NONE, MFX_WRN_PARTIAL_ACCELERATION, MFX_ERR_UNKNOWN}
VppStatuses == {MFX_ERR_NONE, MFX_WRN_PARTIAL_ACCELERATION, MFX_ERR_MORE_DATA, MFX_ERR_UNKNOWN}
EncStatuses == {MFX_ERR_NONE, MFX_WRN_PARTIAL_ACCELERATION, MFX_ERR_MORE_DATA,
                MFX_ERR_NOT_ENOUGH_BUFFER, MFX_ERR_UNKNOWN}
SyncStatuses == {MFX_ERR_NONE, MFX_WRN_IN_EXECUTION, MFX_ERR_ABORTED}

NoOp == [tok |-> 0]
NoCalls == [VppInit |-> 0, EncInit |-> 0, EncClose |-> 0, VppClose |-> 0, EncOk |-> 0]

\* mfxBitstream::new(), main.rs 562-578
NewBitstream == [Data |-> << >>, DataOffset |-> 0, DataLength |-> 0, MaxLength |-> 0]

NoFile == [len |-> 0, pos |-> 0, max |-> 0]

\* mfxFrameAllocRequest::new(): all zero
NewAllocRequest == [NumFrameSuggested |-> 0, Info |-> [Width |-> 0, Height |-> 0]]

DriverInit ==
    /\ pc = "MFXInit" /\ exit = "run" /\ sts = MFX_ERR_NONE
    /\ EncInfo = FrameInfo(0, 0)
    /\ VPPRequest = <<0, 0>> /\ encRequest = NewAllocRequest
    /\ surface_buffers = [In |-> 0, Out |-> 0, Enc |-> 0]
    /\ vpp_surfaces_in = << >> /\ vpp_surfaces_out = << >> /\ enc_surfaces = << >>
    /\ mfxBS = NewBitstream /\ syncp_vpp = 0 /\ syncp_enc = 0 /\ nFrame = 0
    /\ file_in = NoFile /\ file_out = << >>
    /\ nSurfIdxIn = 0 /\ nSurfIdxOut = 0 /\ nEncSurfIdx = 0
    /\ engine = [vpp |-> NoOp, enc |-> NoOp, loaded |-> 0, cached |-> 0]
    /\ calls = NoCalls

NoFlush == [res |-> "none", before |-> NewBitstream, n |-> 0]
NoSurface == [Info |-> FrameInfo(0, 0), Locked |-> 0, Y |-> << >>]
NoCopy == [done |-> FALSE, ok |-> FALSE, sts |-> MFX_ERR_NONE, before |-> NoSurface]

PoolIdle == pool = << >> /\ acquired = << >> /\ released = -1
FlushIdle == hbs = NewBitstream /\ hsink = << >> /\ hflush = NoFlush
CopyIdle == hsrc = NoSurface /\ hdst = NoSurface /\ hcopy = NoCopy
NoLoad == [done |-> FALSE, info |-> FrameInfo(0, 0), errAt |-> 0, ok |-> FALSE,
           sts |-> MFX_ERR_NONE, before |-> NoFile]
LoadIdle == hfile = NoFile /\ hload = NoLoad
NoArith == [op |-> "none", checks |-> FALSE, a |-> << >>, done |-> FALSE, panic |-> FALSE,
            r |-> << >>]
ArithIdle == harith = NoArith
HarnessIdle == PoolIdle /\ FlushIdle /\ CopyIdle /\ LoadIdle /\ ArithIdle

Init == DriverInit /\ HarnessIdle

\* main ends: it returns Ok(()) or Err(how), or panics
Return(how) == pc' = "done" /\ exit' = how

\* the Err values main returns once the files are open
LoopErrors == {"Memory allocation error", "Frame copy error", "InvalidData", "WriteError",
               "Encode error"}

setupVars == <<EncInfo, VPPRequest, encRequest, surface_buffers>>
poolsVars == <<vpp_surfaces_in, vpp_surfaces_out, enc_surfaces>>
ioVars == <<mfxBS, file_in, file_out>>
idxVars == <<nSurfIdxIn, nSurfIdxOut, nEncSurfIdx>>
syncVars == <<syncp_vpp, syncp_enc>>

Zeros(n) == [i \in 1..n |-> 0]
Bytes(n, b) == [i \in 1..n |-> b]

\* width * height * bitsPerPixel / 8, the bytes of the backing buffer that
\* one surface gets (usize arithmetic: both factors are at most 2^16, so
\* the product does not wrap)                       main.rs 1070, 1107, 1168
SurfaceSize(width, height) == (width * height * bits_per_pixel) \div 8

\* "align32(x as u32) as usize" for a u16 x         main.rs 1067, 1105, 1165
Aligned32(x) == Value(align32(Halves(x)))

\* mutant: the second chroma pointer is one byte after the first
PlanarPtrs_interleaved(n, width, height) ==
    [i \in 0..(n - 1) |->
        LET y == SurfaceSize(width, height) * i IN
        [Y |-> y, UV |-> y + width * height, V |-> y + width * height + 1]]

\* The plane pointers of surface i = 0..n-1, as offsets from the start of
\* the pool's backing buffer.  VPP input pool: Y at surfaceSize * i, UV at
\* Y + width * height, V at UV + width * height / 4.  main.rs 1079-1095
PlanarPtrs(n, width, height) ==
    [i \in 0..(n - 1) |->
        LET y == SurfaceSize(width, height) * i IN
        [Y |-> y,
         UV |-> y + width * height,
         V |-> y + width * height + (width * height) \div 4]]

\* mutant: surface i is placed i luma planes into the buffer
InterleavedPtrs_luma(n, width, height) ==
    [i \in 0..(n - 1) |->
        LET y == width * height * i IN
        [Y |-> y, UV |-> y + width * height, V |-> y + width * height + 1]]

\* VPP output and Encode pools: Y at surfaceSize * i, UV at
\* Y + width * height, V at UV + 1                  main.rs 1116-1127, 1179-1185
InterleavedPtrs(n, width, height) ==
    [i \in 0..(n - 1) |->
        LET y == SurfaceSize(width, height) * i IN
        [Y |-> y, UV |-> y + width * height, V |-> y + width * height + 1]]

\* mfxFrameSurface1::new() with its Info and its plane pointers set; the
\* base pointer is placed in the zero-filled backing buffer, and winlen is
\* the number of bytes at the base pointer that the model keeps
NewSurface(info, winlen, ptr) == [Info |-> info, Locked |-> 0, Y |-> Zeros(winlen), Ptr |-> ptr]

\* mutant: the loop runs over 0..n-1 exclusive of the last surface
ConstructPool_short(n, info, winlen, ptrs) ==
    [i \in 1..(IF n > 0 THEN n - 1 ELSE 0) |-> NewSurface(info, winlen, ptrs[i - 1])]

\* the allocation loops "for i in 0..n { ...; push(surface) }",
\* main.rs 1075-1102, 1112-1134, 1175-1192
ConstructPool(n, info, winlen, ptrs) == [i \in 1..n |-> NewSurface(info, winlen, ptrs[i - 1])]

(***************************************************************************)
(* Setup, main.rs 1000-1214.  assert_error_msg panics on every status but  *)
(* MFX_ERR_NONE (check_error, utils.rs 15-27).                             *)
(***************************************************************************)
\* sts = MFXInit(..); assert_error_msg(sts, ..)      main.rs 1004-1005
MFXInit ==
    /\ pc = "MFXInit"
    /\ \E s \in SetupStatuses :
          /\ sts' = s
          /\ IF s = MFX_ERR_NONE THEN pc' = "ParseArgs" /\ exit' = exit ELSE Return("panic")
    /\ UNCHANGED <<setupVars, poolsVars, ioVars, idxVars, syncVars, nFrame, engine, calls>>
    /\ UNCHANGED harnessVars

\* env::args(): a wrong count returns Err(InvalidInput), an unparsable
\* number panics in unwrap()                          main.rs 1011-1022
ParseArgs ==
    /\ pc = "ParseArgs"
    /\ \E a \in {"ok", "usage", "badnumber"} :
          CASE a = "ok" -> pc' = "VPPQuery" /\ exit' = exit
            [] a = "usage" -> Return("InvalidInput")
            [] OTHER -> Return("panic")
    /\ UNCHANGED <<sts, setupVars, poolsVars, ioVars, idxVars, syncVars, nFrame, engine, calls>>
    /\ UNCHANGED harnessVars

\* sts = MFXVideoVPP_Query(..); assert_error_msg     main.rs 1025-1027
VPPQuery ==
    /\ pc = "VPPQuery"
    /\ \E s \in SetupStatuses :
          /\ sts' = s
          /\ IF s = MFX_ERR_NONE THEN pc' = "VPPQueryIOSurf" /\ exit' = exit ELSE Return("panic")
    /\ UNCHANGED <<setupVars, poolsVars, ioVars, idxVars, syncVars, nFrame, engine, calls>>
    /\ UNCHANGED harnessVars

\* mutant: VPP Init is called right after QueryIOSurf, before the pools
\* are built
VPPQueryIOSurf_initfirst ==
    /\ pc = "VPPQueryIOSurf"
    /\ \E s \in SetupStatuses, nin \in 0..MaxSurfIn, nout \in 0..MaxSurfOut :
          /\ sts' = s
          /\ VPPRequest' = <<nin, nout>>
    /\ pc' = "VPPInit"
    /\ UNCHANGED <<exit, EncInfo, encRequest, surface_buffers, poolsVars, ioVars, idxVars,
                   syncVars, nFrame, engine, calls>>
    /\ UNCHANGED harnessVars

\* sts = MFXVideoVPP_QueryIOSurf(..): the status is printed, not checked
\*                                                    main.rs 1056-1062
VPPQueryIOSurf ==
    /\ pc = "VPPQueryIOSurf"
    /\ \E s \in SetupStatuses, nin \in 0..MaxSurfIn, nout \in 0..MaxSurfOut :
          /\ sts' = s
          /\ VPPRequest' = <<nin, nout>>
    /\ pc' = "AllocVpp"
    /\ UNCHANGED <<exit, EncInfo, encRequest, surface_buffers, poolsVars, ioVars, idxVars,
                   syncVars, nFrame, engine, calls>>
    /\ UNCHANGED harnessVars

\* the VPP input and output pools: each backing buffer is resized once to
\* n * surfaceSize zero bytes, then the surfaces are placed in it
\*                                                    main.rs 1061-1134
AllocVpp ==
    /\ pc = "AllocVpp"
    /\ LET nVPPSurfNumIn == VPPRequest[1]
           nVPPSurfNumOut == VPPRequest[2]
           width_vpp_in == Aligned32(VppInInfo.Width)
           height_vpp_in == Aligned32(VppInInfo.Height)
           width_vpp_out == Aligned32(VppOutInfo.Width)
           height_vpp_out == Aligned32(VppOutInfo.Height)
       IN  /\ surface_buffers' =
                 [surface_buffers EXCEPT
                    !.In = nVPPSurfNumIn * SurfaceSize(width_vpp_in, height_vpp_in),
                    !.Out = nVPPSurfNumOut * SurfaceSize(width_vpp_out, height_vpp_out)]
           /\ vpp_surfaces_in' =
                 ConstructPool(nVPPSurfNumIn, VppInInfo, 0,
                               PlanarPtrs(nVPPSurfNumIn, width_vpp_in, height_vpp_in))
           /\ vpp_surfaces_out' =
                 ConstructPool(nVPPSurfNumOut, VppOutInfo, CopySize(VppOutInfo),
                               InterleavedPtrs(nVPPSurfNumOut, width_vpp_out, height_vpp_out))
    /\ pc' = "VPPInit"
    /\ UNCHANGED <<exit, sts, EncInfo, VPPRequest, encRequest, enc_surfaces, ioVars, idxVars,
                   syncVars, nFrame, engine, calls>>
    /\ UNCHANGED harnessVars

\* sts = MFXVideoVPP_Init(..); assert_error_msg      main.rs 1136-1137
VPPInit ==
    /\ pc = "VPPInit"
    /\ \E s \in SetupStatuses :
          /\ sts' = s
          /\ IF s = MFX_ERR_NONE THEN pc' = "EncQuery" /\ exit' = exit ELSE Return("panic")
    /\ calls' = [calls EXCEPT !.VppInit = @ + 1]
    /\ UNCHANGED <<setupVars, poolsVars, ioVars, idxVars, syncVars, nFrame, engine>>
    /\ UNCHANGED harnessVars

\* EncParams is built from the command line, then
\* sts = MFXVideoENCODE_Query(session, &EncParams, &mut EncParams): the SDK
\* may correct fields of EncParams; the status is printed, not checked
\*                                                    main.rs 1139-1158
EncQuery ==
    /\ pc = "EncQuery"
    /\ \E s \in SetupStatuses :
          /\ sts' = s
    /\ \E corrected \in BOOLEAN, w \in 1..MaxDim, h \in 1..MaxDim :
          EncInfo' = IF corrected
                     THEN [FrameInfo(CliWidth, CliHeight) EXCEPT !.CropW = w, !.CropH = h]
                     ELSE FrameInfo(CliWidth, CliHeight)
    /\ pc' = "EncQueryIOSurf"
    /\ UNCHANGED <<exit, VPPRequest, encRequest, surface_buffers, poolsVars, ioVars, idxVars,
                   syncVars, nFrame, engine, calls>>
    /\ UNCHANGED harnessVars

\* sts = MFXVideoENCODE_QueryIOSurf(..): printed, not checked.  The SDK
\* fills encRequest with the number of surfaces and the frame info of
\* EncParams, or leaves it as mfxFrameAllocRequest::new() made it.
\*                                                    main.rs 1160-1164
EncQueryIOSurf ==
    /\ pc = "EncQueryIOSurf"
    /\ \E s \in SetupStatuses, n \in 0..MaxSurfEnc, filled \in BOOLEAN :
          /\ filled \/ n = 0
          /\ sts' = s
          /\ encRequest' = IF filled
                           THEN [NumFrameSuggested |-> n,
                                 Info |-> [Width |-> EncInfo.Width, Height |-> EncInfo.Height]]
                           ELSE NewAllocRequest
    /\ pc' = "AllocEnc"
    /\ UNCHANGED <<exit, EncInfo, VPPRequest, surface_buffers, poolsVars, ioVars, idxVars,
                   syncVars, nFrame, engine, calls>>
    /\ UNCHANGED harnessVars

\* the Encode input pool: the buffer is sized from encRequest.Info, the
\* surfaces get EncParams.u.mfx.FrameInfo           main.rs 1164-1192
AllocEnc ==
    /\ pc = "AllocEnc"
    /\ LET encSurfNum == encRequest.NumFrameSuggested
           width == Aligned32(encRequest.Info.Width)
           height == Aligned32(encRequest.Info.Height)
       IN  /\ surface_buffers' =
                 [surface_buffers EXCEPT !.Enc = encSurfNum * SurfaceSize(width, height)]
           /\ enc_surfaces' =
                 ConstructPool(encSurfNum, EncInfo, CopySize(EncInfo),
                               InterleavedPtrs(encSurfNum, width, height))
    /\ pc' = "EncInit"
    /\ UNCHANGED <<exit, sts, EncInfo, VPPRequest, encRequest, vpp_surfaces_in,
                   vpp_surfaces_out, ioVars, idxVars, syncVars, nFrame, engine, calls>>
    /\ UNCHANGED harnessVars

\* mutant: the status of Encode Init is asserted as that of VPP Init is
EncInit_assert ==
    /\ pc = "EncInit"
    /\ \E s \in SetupStatuses :
          /\ sts' = s
          /\ IF s = MFX_ERR_NONE THEN pc' = "AllocBitstream" /\ exit' = exit ELSE Return("panic")
    /\ calls' = [calls EXCEPT !.EncInit = @ + 1]
    /\ UNCHANGED <<setupVars, poolsVars, ioVars, idxVars, syncVars, nFrame, engine>>
    /\ UNCHANGED harnessVars

\* sts = MFXVideoENCODE_Init(..): printed, not checked; it is the status
\* the loop condition first sees                      main.rs 1194-1195
EncInit ==
    /\ pc = "EncInit"
    /\ \E s \in SetupStatuses : sts' = s
    /\ calls' = [calls EXCEPT !.EncInit = @ + 1]
    /\ pc' = "AllocBitstream"
    /\ UNCHANGED <<exit, setupVars, poolsVars, ioVars, idxVars, syncVars, nFrame, engine>>
    /\ UNCHANGED harnessVars

BytesPerKB == 1000

\* MFXVideoENCODE_GetVideoParam reports BufferSizeInKB ("the maximum
\* possible size for any compressed frames": 1 here, 0 when Init failed);
\* the bitstream buffer gets MaxLength = 1000 * bufferSizeInKB zero bytes.
\* The model keeps the first MaxChunk bytes of it.    main.rs 1197-1211
AllocBitstream ==
    /\ pc = "AllocBitstream"
    /\ \E bufferSizeInKB \in {IF sts >= MFX_ERR_NONE THEN 1 ELSE 0} :
          mfxBS' = [NewBitstream EXCEPT
                      !.MaxLength = BytesPerKB * bufferSizeInKB,
                      !.Data = Zeros(Min(BytesPerKB * bufferSizeInKB, MaxChunk))]
    /\ syncp_vpp' = 0 /\ syncp_enc' = 0 /\ nFrame' = 0
    /\ pc' = "OpenFiles"
    /\ UNCHANGED <<exit, sts, setupVars, poolsVars, file_in, file_out, idxVars, engine, calls>>
    /\ UNCHANGED harnessVars

\* File::open(params.input)?; File::create(params.output)?
\*                                                    main.rs 1213-1214
OpenFiles ==
    /\ pc = "OpenFiles"
    /\ \/ /\ \E len \in FileLens : file_in' = [len |-> len, pos |-> 0, max |-> len]
          /\ file_out' = << >>
          /\ pc' = "LoopCond" /\ exit' = exit
       \/ /\ Return("OpenError")
          /\ UNCHANGED <<file_in, file_out>>
    /\ UNCHANGED <<sts, setupVars, poolsVars, mfxBS, idxVars, syncVars, nFrame, engine, calls>>
    /\ UNCHANGED harnessVars

(***************************************************************************)
(* The loop, main.rs 1217-1303.                                            *)
(***************************************************************************)
\* mutant: the loop is entered only on a positive status
LoopCond_strict ==
    /\ pc = "LoopCond"
    /\ pc' = IF MFX_ERR_NONE < sts \/ MFX_ERR_MORE_DATA = sts THEN "GetSurfIn" ELSE "AfterLoop"
    /\ nSurfIdxIn' = 0 /\ nSurfIdxOut' = 0 /\ nEncSurfIdx' = 0
    /\ UNCHANGED <<exit, sts, setupVars, poolsVars, ioVars, syncVars, nFrame, engine, calls>>
    /\ UNCHANGED harnessVars

\* while MFX_ERR_NONE <= sts || MFX_ERR_MORE_DATA == sts
LoopCond ==
    /\ pc = "LoopCond"
    /\ pc' = IF MFX_ERR_NONE <= sts \/ MFX_ERR_MORE_DATA = sts THEN "GetSurfIn" ELSE "AfterLoop"
    /\ nSurfIdxIn' = 0 /\ nSurfIdxOut' = 0 /\ nEncSurfIdx' = 0
    /\ UNCHANGED <<exit, sts, setupVars, poolsVars, ioVars, syncVars, nFrame, engine, calls>>
    /\ UNCHANGED harnessVars

Unlock(surfaces, i) == [surfaces EXCEPT ![i].Locked = @ - 1]
Lock(surfaces, i) == [surfaces EXCEPT ![i].Locked = @ + 1]

\* The SDK unlocks a surface it no longer needs, from its own threads.  The
\* driver reads a pool's lock counters only in GetFreeSurfaceIndex, so an
\* unlock is placed right before the scan that can first see it.
EngineUnlock ==
    /\ \/ /\ pc = "GetSurfIn"
          /\ \E i \in 1..Len(vpp_surfaces_in) :
                /\ vpp_surfaces_in[i].Locked > 0
                /\ vpp_surfaces_in' = Unlock(vpp_surfaces_in, i)
          /\ UNCHANGED <<vpp_surfaces_out, enc_surfaces>>
       \/ /\ pc = "GetSurfOut"
          /\ \E i \in 1..Len(vpp_surfaces_out) :
                /\ vpp_surfaces_out[i].Locked > 0
                /\ vpp_surfaces_out' = Unlock(vpp_surfaces_out, i)
          /\ UNCHANGED <<vpp_surfaces_in, enc_surfaces>>
       \/ /\ pc = "GetSurfEnc"
          /\ \E i \in 1..Len(enc_surfaces) :
                /\ enc_surfaces[i].Locked > 0
                /\ enc_surfaces' = Unlock(enc_surfaces, i)
          /\ UNCHANGED <<vpp_surfaces_in, vpp_surfaces_out>>
    /\ UNCHANGED <<pc, exit, sts, setupVars, ioVars, idxVars, syncVars, nFrame, engine, calls>>
    /\ UNCHANGED harnessVars

\* mutant: with no free VPP input surface the loop condition is tested
\* again, to wait for the SDK to free one
GetSurfIn_retry ==
    /\ pc = "GetSurfIn"
    /\ LET r == GetFreeSurfaceIndex(vpp_surfaces_in) IN
          IF r.ok
          THEN nSurfIdxIn' = r.idx /\ pc' = "LoadRawFrame" /\ exit' = exit
          ELSE pc' = "LoopCond" /\ exit' = exit /\ UNCHANGED nSurfIdxIn
    /\ UNCHANGED <<sts, setupVars, poolsVars, ioVars, nSurfIdxOut, nEncSurfIdx, syncVars,
                   nFrame, engine, calls>>
    /\ UNCHANGED harnessVars

\* GetFreeSurfaceIndex(&vpp_surfaces_in)              main.rs 1218-1223
GetSurfIn ==
    /\ pc = "GetSurfIn"
    /\ LET r == GetFreeSurfaceIndex(vpp_surfaces_in) IN
          IF r.ok
          THEN nSurfIdxIn' = r.idx /\ pc' = "LoadRawFrame" /\ exit' = exit
          ELSE Return("Memory allocation error") /\ UNCHANGED nSurfIdxIn
    /\ UNCHANGED <<sts, setupVars, poolsVars, ioVars, nSurfIdxOut, nEncSurfIdx, syncVars,
                   nFrame, engine, calls>>
    /\ UNCHANGED harnessVars

\* mutant: an Err of LoadRawFrame becomes sts and the loop condition is
\* tested again, with no break
LoadFrame_nobreak ==
    /\ pc = "LoadRawFrame"
    /\ \E errAt \in 0..3 :
          LET r == LoadRawFrame(vpp_surfaces_in[nSurfIdxIn + 1].Info, file_in, errAt) IN
          /\ file_in' = r.f
          /\ IF r.ok
             THEN /\ pc' = "GetSurfOut" /\ sts' = sts
                  /\ engine' = [engine EXCEPT !.loaded = r.f.pos \div FrameBytes]
             ELSE /\ pc' = "LoopCond" /\ sts' = r.sts
                  /\ engine' = engine
    /\ UNCHANGED <<exit, setupVars, poolsVars, mfxBS, file_out, idxVars, syncVars, nFrame, calls>>
    /\ UNCHANGED harnessVars

\* LoadRawFrame(&mut vpp_surfaces_in[nSurfIdxIn], &mut file_in); an Err
\* becomes sts and leaves the loop.  engine.loaded is the number of the raw
\* frame the surface now holds.                       main.rs 1225-1229
LoadFrame ==
    /\ pc = "LoadRawFrame"
    /\ \E errAt \in 0..3 :
          LET r == LoadRawFrame(vpp_surfaces_in[nSurfIdxIn + 1].Info, file_in, errAt) IN
          /\ file_in' = r.f
          /\ IF r.ok
             THEN /\ pc' = "GetSurfOut" /\ sts' = sts
                  /\ engine' = [engine EXCEPT !.loaded = r.f.pos \div FrameBytes]
             ELSE /\ pc' = "AfterLoop" /\ sts' = r.sts
                  /\ engine' = engine
    /\ UNCHANGED <<exit, setupVars, poolsVars, mfxBS, file_out, idxVars, syncVars, nFrame, calls>>
    /\ UNCHANGED harnessVars

\* mutant: the acquired surface is marked as in use
GetSurfOut_mark ==
    /\ pc = "GetSurfOut"
    /\ LET r == GetFreeSurfaceIndex(vpp_surfaces_out) IN
          IF r.ok
          THEN /\ nSurfIdxOut' = r.idx /\ pc' = "RunFrameVPPAsync" /\ exit' = exit
               /\ vpp_surfaces_out' = Lock(vpp_surfaces_out, r.idx + 1)
          ELSE /\ Return("Memory allocation error")
               /\ UNCHANGED <<nSurfIdxOut, vpp_surfaces_out>>
    /\ UNCHANGED <<sts, setupVars, vpp_surfaces_in, enc_surfaces, ioVars, nSurfIdxIn,
                   nEncSurfIdx, syncVars, nFrame, engine, calls>>
    /\ UNCHANGED harnessVars

\* GetFreeSurfaceIndex(&vpp_surfaces_out)             main.rs 1231-1236
GetSurfOut ==
    /\ pc = "GetSurfOut"
    /\ LET r == GetFreeSurfaceIndex(vpp_surfaces_out) IN
          IF r.ok
          THEN nSurfIdxOut' = r.idx /\ pc' = "RunFrameVPPAsync" /\ exit' = exit
          ELSE Return("Memory allocation error") /\ UNCHANGED nSurfIdxOut
    /\ UNCHANGED <<sts, setupVars, poolsVars, ioVars, nSurfIdxIn, nEncSurfIdx, syncVars,
                   nFrame, engine, calls>>
    /\ UNCHANGED harnessVars

\* mutant: MFX_ERR_MORE_DATA is not tested, the body goes on to the sync
RunFrameVPPAsync_nocontinue ==
    /\ pc = "RunFrameVPPAsync"
    /\ \E s \in VppStatuses, taken \in BOOLEAN :
          /\ taken = TRUE \/ s > MFX_ERR_NONE
          /\ sts' = s
          /\ IF s = MFX_ERR_NONE \/ (s > MFX_ERR_NONE /\ taken)
             THEN /\ syncp_vpp' = engine.loaded
                  /\ engine' = [engine EXCEPT
                                  !.vpp = [tok |-> engine.loaded, out |-> nSurfIdxOut,
                                           frame |-> engine.loaded]]
                  /\ vpp_surfaces_in' = Lock(vpp_surfaces_in, nSurfIdxIn + 1)
                  /\ vpp_surfaces_out' = Lock(vpp_surfaces_out, nSurfIdxOut + 1)
             ELSE /\ UNCHANGED <<syncp_vpp, engine, vpp_surfaces_out>>
                  /\ vpp_surfaces_in' = IF s = MFX_ERR_MORE_DATA
                                        THEN Lock(vpp_surfaces_in, nSurfIdxIn + 1)
                                        ELSE vpp_surfaces_in
          /\ pc' = "SyncVpp"
    /\ UNCHANGED <<exit, setupVars, enc_surfaces, ioVars, idxVars, syncp_enc, nFrame, calls>>
    /\ UNCHANGED harnessVars

\* sts = MFXVideoVPP_RunFrameVPPAsync(session, &in, &mut out, null, &mut
\* syncp_vpp); if sts == MFX_ERR_MORE_DATA { continue; }.  No other status
\* is tested here.  The SDK: on MFX_ERR_NONE it takes the operation, locks
\* both surfaces and sets the sync point; on a warning it may or may not
\* have taken it; on MFX_ERR_MORE_DATA it keeps (locks) the input; on an
\* error it does nothing.                             main.rs 1238-1255
RunFrameVPPAsync ==
    /\ pc = "RunFrameVPPAsync"
    /\ \E s \in VppStatuses, taken \in BOOLEAN :
          /\ taken = TRUE \/ s > MFX_ERR_NONE
          /\ sts' = s
          /\ IF s = MFX_ERR_NONE \/ (s > MFX_ERR_NONE /\ taken)
             THEN /\ syncp_vpp' = engine.loaded
                  /\ engine' = [engine EXCEPT
                                  !.vpp = [tok |-> engine.loaded, out |-> nSurfIdxOut,
                                           frame |-> engine.loaded]]
                  /\ vpp_surfaces_in' = Lock(vpp_surfaces_in, nSurfIdxIn + 1)
                  /\ vpp_surfaces_out' = Lock(vpp_surfaces_out, nSurfIdxOut + 1)
             ELSE /\ UNCHANGED <<syncp_vpp, engine, vpp_surfaces_out>>
                  /\ vpp_surfaces_in' = IF s = MFX_ERR_MORE_DATA
                                        THEN Lock(vpp_surfaces_in, nSurfIdxIn + 1)
                                        ELSE vpp_surfaces_in
          /\ pc' = IF s = MFX_ERR_MORE_DATA THEN "LoopCond" ELSE "SyncVpp"
    /\ UNCHANGED <<exit, setupVars, enc_surfaces, ioVars, idxVars, syncp_enc, nFrame, calls>>
    /\ UNCHANGED harnessVars

\* the output surface after the VPP operation op has written its frame
VppOutput(surfaces, op) ==
    [surfaces EXCEPT ![op.out + 1].Y = Bytes(Len(@), op.frame)]

\* sts = MFXVideoCORE_SyncOperation(session, syncp_vpp, 6000): the status
\* is printed and the driver goes on.  When the sync point is the pending
\* operation's: after success the output surface holds the frame; after a
\* failure (still in execution, aborted) it may or may not.  A null or
\* stale sync point completes nothing.                main.rs 1257-1258
SyncVpp ==
    /\ pc = "SyncVpp"
    /\ \E s \in SyncStatuses, written \in BOOLEAN :
          /\ sts' = s
          /\ IF engine.vpp.tok # 0 /\ engine.vpp.tok = syncp_vpp
             THEN /\ s = MFX_ERR_NONE => written
                  /\ vpp_surfaces_out' = IF written THEN VppOutput(vpp_surfaces_out, engine.vpp)
                                         ELSE vpp_surfaces_out
                  /\ engine' = [engine EXCEPT !.vpp = NoOp]
             ELSE /\ written = FALSE
                  /\ UNCHANGED <<vpp_surfaces_out, engine>>
    /\ pc' = "GetSurfEnc"
    /\ UNCHANGED <<exit, setupVars, vpp_surfaces_in, enc_surfaces, ioVars, idxVars, syncVars,
                   nFrame, calls>>
    /\ UNCHANGED harnessVars

\* mutant: with no free Encode surface the frame is dropped and the loop
\* goes on
GetSurfEnc_skip ==
    /\ pc = "GetSurfEnc"
    /\ LET r == GetFreeSurfaceIndex(enc_surfaces) IN
          IF r.ok
          THEN nEncSurfIdx' = r.idx /\ pc' = "VppToEncSurface" /\ exit' = exit
          ELSE pc' = "LoopCond" /\ exit' = exit /\ UNCHANGED nEncSurfIdx
    /\ UNCHANGED <<sts, setupVars, poolsVars, ioVars, nSurfIdxIn, nSurfIdxOut, syncVars,
                   nFrame, engine, calls>>
    /\ UNCHANGED harnessVars

\* GetFreeSurfaceIndex(&enc_surfaces)                 main.rs 1260-1265
GetSurfEnc ==
    /\ pc = "GetSurfEnc"
    /\ LET r == GetFreeSurfaceIndex(enc_surfaces) IN
          IF r.ok
          THEN nEncSurfIdx' = r.idx /\ pc' = "VppToEncSurface" /\ exit' = exit
          ELSE Return("Memory allocation error") /\ UNCHANGED nEncSurfIdx
    /\ UNCHANGED <<sts, setupVars, poolsVars, ioVars, nSurfIdxIn, nSurfIdxOut, syncVars,
                   nFrame, engine, calls>>
    /\ UNCHANGED harnessVars

\* VppToEncSurface(&vpp_surfaces_out[nSurfIdxOut], &mut
\* enc_surfaces[nEncSurfIdx]); an Err returns "Frame copy error"
\*                                                    main.rs 1267-1275
VppToEnc ==
    /\ pc = "VppToEncSurface"
    /\ LET r == VppToEncSurface(vpp_surfaces_out[nSurfIdxOut + 1],
                                enc_surfaces[nEncSurfIdx + 1]) IN
          /\ enc_surfaces' = [enc_surfaces EXCEPT ![nEncSurfIdx + 1] = r.dst]
          /\ IF r.ok THEN pc' = "EncodeFrameAsync" /\ exit' = exit
                     ELSE Return("Frame copy error")
    /\ UNCHANGED <<sts, setupVars, vpp_surfaces_in, vpp_surfaces_out, ioVars, idxVars,
                   syncVars, nFrame, engine, calls>>
    /\ UNCHANGED harnessVars

\* mutant: a warning is taken for success, the body goes on to the sync
EncodeFrameAsync_warnsync ==
    /\ pc = "EncodeFrameAsync"
    /\ \E s \in EncStatuses, taken \in BOOLEAN :
          /\ taken = TRUE \/ s > MFX_ERR_NONE
          /\ s = MFX_ERR_NONE => mfxBS.MaxLength > 0
          /\ sts' = s
          /\ IF s = MFX_ERR_NONE \/ (s > MFX_ERR_NONE /\ taken)
             THEN /\ syncp_enc' = engine.loaded
                  /\ engine' = [engine EXCEPT
                                  !.enc = [tok |-> engine.loaded,
                                           frame |-> enc_surfaces[nEncSurfIdx + 1].Y[1]]]
                  /\ enc_surfaces' = Lock(enc_surfaces, nEncSurfIdx + 1)
             ELSE /\ UNCHANGED syncp_enc
                  /\ engine' = IF s = MFX_ERR_MORE_DATA
                               THEN [engine EXCEPT !.cached = @ + 1]
                               ELSE engine
                  /\ enc_surfaces' = IF s = MFX_ERR_MORE_DATA
                                     THEN Lock(enc_surfaces, nEncSurfIdx + 1)
                                     ELSE enc_surfaces
          /\ calls' = IF s = MFX_ERR_NONE THEN [calls EXCEPT !.EncOk = @ + 1] ELSE calls
          /\ pc' = IF s >= MFX_ERR_NONE THEN "SyncEnc" ELSE "LoopCond"
    /\ UNCHANGED <<exit, setupVars, vpp_surfaces_in, vpp_surfaces_out, ioVars, idxVars,
                   syncp_vpp, nFrame>>
    /\ UNCHANGED harnessVars

\* sts = MFXVideoENCODE_EncodeFrameAsync(session, null, &enc_surfaces[..],
\* &mut mfxBS, &mut syncp_enc); a warning and MFX_ERR_NOT_ENOUGH_BUFFER are
\* printed; only on MFX_ERR_NONE does the body go on to the sync.  The SDK:
\* on MFX_ERR_NONE it takes the frame, locks it and sets the sync point; on
\* a warning it may or may not have; on MFX_ERR_MORE_DATA it caches (locks)
\* the frame, which it gives out only when drained by a call with a null
\* surface; with an empty bitstream buffer it cannot answer MFX_ERR_NONE.
\*                                                    main.rs 1277-1295
EncodeFrameAsync ==
    /\ pc = "EncodeFrameAsync"
    /\ \E s \in EncStatuses, taken \in BOOLEAN :
          /\ taken = TRUE \/ s > MFX_ERR_NONE
          /\ s = MFX_ERR_NONE => mfxBS.MaxLength > 0
          /\ sts' = s
          /\ IF s = MFX_ERR_NONE \/ (s > MFX_ERR_NONE /\ taken)
             THEN /\ syncp_enc' = engine.loaded
                  /\ engine' = [engine EXCEPT
                                  !.enc = [tok |-> engine.loaded,
                                           frame |-> enc_surfaces[nEncSurfIdx + 1].Y[1]]]
                  /\ enc_surfaces' = Lock(enc_surfaces, nEncSurfIdx + 1)
             ELSE /\ UNCHANGED syncp_enc
                  /\ engine' = IF s = MFX_ERR_MORE_DATA
                               THEN [engine EXCEPT !.cached = @ + 1]
                               ELSE engine
                  /\ enc_surfaces' = IF s = MFX_ERR_MORE_DATA
                                     THEN Lock(enc_surfaces, nEncSurfIdx + 1)
                                     ELSE enc_surfaces
          /\ calls' = IF s = MFX_ERR_NONE THEN [calls EXCEPT !.EncOk = @ + 1] ELSE calls
          /\ pc' = IF s = MFX_ERR_NONE THEN "SyncEnc" ELSE "LoopCond"
    /\ UNCHANGED <<exit, setupVars, vpp_surfaces_in, vpp_surfaces_out, ioVars, idxVars,
                   syncp_vpp, nFrame>>
    /\ UNCHANGED harnessVars

\* the bitstream after the SDK has appended len bytes of frame's chunk
EncOutput(bs, frame, len) ==
    [bs EXCEPT !.Data = [i \in 1..Len(@) |->
                            IF i > bs.DataOffset + bs.DataLength
                               /\ i <= bs.DataOffset + bs.DataLength + len
                            THEN frame ELSE @[i]],
               !.DataLength = @ + len]

\* sts = MFXVideoCORE_SyncOperation(session, syncp_enc, 6000); nFrame += 1.
\* After success the bitstream holds the frame's chunk (1..MaxChunk bytes,
\* each carrying the frame's number); after a failure nothing was written.
\*                                                    main.rs 1296-1299
SyncEnc ==
    /\ pc = "SyncEnc"
    /\ \E s \in SyncStatuses, len \in 0..MaxChunk :
          /\ sts' = s
          /\ IF engine.enc.tok # 0 /\ engine.enc.tok = syncp_enc /\ s = MFX_ERR_NONE
             THEN /\ len >= 1
                  /\ mfxBS.DataOffset + mfxBS.DataLength + len <= Len(mfxBS.Data)
                  /\ mfxBS' = EncOutput(mfxBS, engine.enc.frame, len)
             ELSE /\ len = 0
                  /\ mfxBS' = mfxBS
          /\ engine' = [engine EXCEPT !.enc = NoOp]
    /\ nFrame' = nFrame + 1
    /\ pc' = "WriteBitStreamFrame"
    /\ UNCHANGED <<exit, setupVars, poolsVars, file_in, file_out, idxVars, syncVars, calls>>
    /\ UNCHANGED harnessVars

\* WriteBitStreamFrame(&mut mfxBS, &mut file_out)?    main.rs 1301
WriteBitStream ==
    /\ pc = "WriteBitStreamFrame"
    /\ \E n \in -1..mfxBS.DataLength :
          LET r == WriteBitStreamFrame(mfxBS, n) IN
          /\ mfxBS' = r.bs
          /\ file_out' = file_out \o r.written
          /\ CASE r.res = "ok" -> pc' = "LoopCond" /\ exit' = exit
               [] r.res = "InvalidData" -> Return("InvalidData")
               [] OTHER -> Return("WriteError")
    /\ UNCHANGED <<sts, setupVars, poolsVars, file_in, idxVars, syncVars, nFrame, engine, calls>>
    /\ UNCHANGED harnessVars

\* mutant: the status the loop ended with is not tested
AfterLoop_nostatus ==
    /\ pc = "AfterLoop"
    /\ Return("Ok") /\ calls' = [calls EXCEPT !.EncClose = @ + 1]
    /\ UNCHANGED <<sts, setupVars, poolsVars, ioVars, idxVars, syncVars, nFrame, engine>>
    /\ UNCHANGED harnessVars

\* if sts != MFX_ERR_MORE_DATA { return Err(..) }
\* MFXVideoENCODE_Close(session); Ok(())              main.rs 1305-1312
AfterLoop ==
    /\ pc = "AfterLoop"
    /\ IF sts # MFX_ERR_MORE_DATA
       THEN Return("Encode error") /\ calls' = calls
       ELSE Return("Ok") /\ calls' = [calls EXCEPT !.EncClose = @ + 1]
    /\ UNCHANGED <<sts, setupVars, poolsVars, ioVars, idxVars, syncVars, nFrame, engine>>
    /\ UNCHANGED harnessVars

Setup ==
    \/ MFXInit \/ ParseArgs \/ VPPQuery \/ VPPQueryIOSurf \/ AllocVpp \/ VPPInit
    \/ EncQuery \/ EncQueryIOSurf \/ AllocEnc \/ EncInit \/ AllocBitstream \/ OpenFiles

Loop ==
    \/ LoopCond \/ GetSurfIn \/ LoadFrame \/ GetSurfOut \/ RunFrameVPPAsync \/ SyncVpp
    \/ GetSurfEnc \/ VppToEnc \/ EncodeFrameAsync \/ SyncEnc \/ WriteBitStream \/ AfterLoop

Next == Setup \/ Loop \/ EngineUnlock

Spec == Init /\ [][Next]_vars

(***************************************************************************)
(* Pool harness: GetFreeSurfaceIndex on every pool of up to MaxPool        *)
(* surfaces with lock counters up to MaxLock, between lock and unlock      *)
(* steps of the SDK.                                                       *)
(***************************************************************************)
MaxCalls == 3

AllPools == UNION {[1..n -> [Locked : 0..MaxLock]] : n \in 0..MaxPool}

PoolInit ==
    /\ pool \in AllPools /\ acquired = << >> /\ released = -1
    /\ DriverInit /\ FlushIdle /\ CopyIdle /\ LoadIdle /\ ArithIdle

\* a call of GetFreeSurfaceIndex(&pool): the pool is borrowed immutably
PoolAcquire ==
    /\ Len(acquired) < MaxCalls
    /\ acquired' = Append(acquired, GetFreeSurfaceIndex(pool))
    /\ UNCHANGED <<pool, released>>
    /\ UNCHANGED <<driverVars, flushVars, copyVars, loadVars, arithVars>>

PoolEngineLock ==
    /\ \E i \in 1..Len(pool) :
          /\ pool[i].Locked < MaxLock
          /\ pool' = Lock(pool, i)
    /\ acquired' = << >> /\ released' = -1
    /\ UNCHANGED <<driverVars, flushVars, copyVars, loadVars, arithVars>>

PoolEngineUnlock ==
    /\ \E i \in 1..Len(pool) :
          /\ pool[i].Locked > 0
          /\ pool' = Unlock(pool, i)
          /\ released' = IF pool[i].Locked = 1 THEN i - 1 ELSE -1
    /\ acquired' = << >>
    /\ UNCHANGED <<driverVars, flushVars, copyVars, loadVars, arithVars>>

PoolNext == PoolAcquire \/ PoolEngineLock \/ PoolEngineUnlock

PoolSpec == PoolInit /\ [][PoolNext]_vars

(***************************************************************************)
(* Flush harness: WriteBitStreamFrame on every bitstream of up to MaxBytes *)
(* bytes with DataOffset + DataLength inside the buffer, for every answer  *)
(* of the sink.                                                            *)
(***************************************************************************)
AllByteSeqs(maxlen) == UNION {[1..n -> 0..MaxByte] : n \in 0..maxlen}

AllBitstreams ==
    {[Data |-> d, DataOffset |-> o, DataLength |-> l, MaxLength |-> Len(d)] :
        <<d, o, l>> \in {t \in AllByteSeqs(MaxBytes) \X (0..MaxBytes) \X (0..MaxBytes) :
                            t[2] + t[3] <= Len(t[1])}}

FlushInit ==
    /\ hbs \in AllBitstreams /\ hsink = << >> /\ hflush = NoFlush
    /\ DriverInit /\ PoolIdle /\ CopyIdle /\ LoadIdle /\ ArithIdle

HFlush ==
    /\ hflush.res = "none"
    /\ \E n \in -1..hbs.DataLength :
          LET r == WriteBitStreamFrame(hbs, n) IN
          /\ hflush' = [res |-> r.res, before |-> hbs, n |-> n]
          /\ hbs' = r.bs
          /\ hsink' = hsink \o r.written
    /\ UNCHANGED <<driverVars, poolVars, copyVars, loadVars, arithVars>>

FlushSpec == FlushInit /\ [][HFlush]_vars

(***************************************************************************)
(* Copy harness: VppToEncSurface on every pair of surfaces with crops up   *)
(* to MaxCrop x MaxCrop; each surface's memory is one byte longer than its *)
(* crop needs.                                                             *)
(***************************************************************************)
Pattern(n, a, b) == [i \in 1..n |-> IF i % 2 = 1 THEN a ELSE b]

AllSurfaces ==
    {[Info |-> FrameInfo(w, h), Locked |-> 0,
      Y |-> Pattern(CopySize(FrameInfo(w, h)) + 1, a, b)] :
        <<w, h, a, b>> \in (0..MaxCrop) \X (0..MaxCrop) \X (0..MaxByte) \X (0..MaxByte)}

CopyInit ==
    /\ hsrc \in AllSurfaces /\ hdst \in AllSurfaces /\ hcopy = NoCopy
    /\ DriverInit /\ PoolIdle /\ FlushIdle /\ LoadIdle /\ ArithIdle

HCopy ==
    /\ ~hcopy.done
    /\ LET r == VppToEncSurface(hsrc, hdst) IN
          /\ hcopy' = [done |-> TRUE, ok |-> r.ok, sts |-> r.sts, before |-> hdst]
          /\ hdst' = r.dst
    /\ UNCHANGED hsrc
    /\ UNCHANGED <<driverVars, poolVars, flushVars, loadVars, arithVars>>

CopySpec == CopyInit /\ [][HCopy]_vars

(***************************************************************************)
(* Load harness: LoadRawFrame for every crop up to MaxCrop x MaxCrop on    *)
(* every input of up to MaxFileLen bytes, regular file or not.             *)
(***************************************************************************)
MaxFileLen == 7

AllFiles == {[len |-> l, pos |-> 0, max |-> m] : l \in 0..MaxFileLen, m \in 1..MaxFileLen}

LoadInit ==
    /\ hfile \in AllFiles
    /\ hload \in {[NoLoad EXCEPT !.info = FrameInfo(w, h), !.before = hfile] :
                     <<w, h>> \in (0..MaxCrop) \X (0..MaxCrop)}
    /\ DriverInit /\ PoolIdle /\ FlushIdle /\ CopyIdle /\ ArithIdle

HLoad ==
    /\ ~hload.done
    /\ \E errAt \in 0..3 :
          LET r == LoadRawFrame(hload.info, hfile, errAt) IN
          /\ hload' = [hload EXCEPT !.done = TRUE, !.errAt = errAt, !.ok = r.ok,
                                    !.sts = r.sts]
          /\ hfile' = r.f
    /\ UNCHANGED <<driverVars, poolVars, flushVars, copyVars, arithVars>>

LoadSpec == LoadInit /\ [][HLoad]_vars

(***************************************************************************)
(* Arithmetic harnesses: one call of a function on one argument, in a      *)
(* build with or without overflow checks.  harith.a holds the arguments,   *)
(* harith.r the results, harith.panic whether the call panicked.           *)
(***************************************************************************)
ArithInit(op, args) ==
    /\ harith \in {[NoArith EXCEPT !.op = op, !.a = a, !.checks = c] :
                       a \in args, c \in BOOLEAN}
    /\ DriverInit /\ PoolIdle /\ FlushIdle /\ CopyIdle /\ LoadIdle

ArithDone(panic, r) ==
    /\ harith' = [harith EXCEPT !.done = TRUE, !.panic = panic, !.r = r]
    /\ UNCHANGED <<driverVars, poolVars, flushVars, copyVars, loadVars>>

\* align16 on every u16; r = <<align16(x), align16(align16(x))>>
Align16Init == ArithInit("align16", {<<x>> : x \in 0..(U16 - 1)})

HAlign16 ==
    /\ harith.op = "align16" /\ ~harith.done
    /\ LET x == harith.a[1] IN
          IF harith.checks /\ align16_overflows(x)
          THEN ArithDone(TRUE, << >>)
          ELSE ArithDone(FALSE, <<align16(x), align16(align16(x))>>)

Align16Spec == Align16Init /\ [][HAlign16]_vars

\* align32 on the u32 values whose low half is within MaxLow of either end
\* of the 16-bit range and whose high half is one of HighHalves;
\* r = <<align32(x), align32(align32(x))>>
MaxLow == 40
HighHalves == {0, 1, U16 \div 2, U16 - 1}
LowHalves == (0..MaxLow) \cup ((U16 - 1 - MaxLow)..(U16 - 1))

Align32Init == ArithInit("align32", {<<[hi |-> h, lo |-> l]>> : h \in HighHalves, l \in LowHalves})

HAlign32 ==
    /\ harith.op = "align32" /\ ~harith.done
    /\ LET x == harith.a[1] IN
          IF harith.checks /\ align32_overflows(x)
          THEN ArithDone(TRUE, << >>)
          ELSE ArithDone(FALSE, <<align32(x), align32(align32(x))>>)

Align32Spec == Align32Init /\ [][HAlign32]_vars

\* The three mfxFrameInfo that main builds from params.width and
\* params.height (both usize), for widths and heights within MaxGeom of 0
\* and of 2^16; r = <<VppParams.u.vpp.In, VppParams.u.vpp.Out,
\* EncParams.u.mfx.FrameInfo>>.  "as u16" truncates and never panics; the
\* additions in align16 panic in a build with overflow checks.
MaxGeom == 20
GeomArgs == (0..MaxGeom) \cup ((U16 - MaxGeom)..(U16 + MaxGeom))

GeometryInit == ArithInit("geometry", GeomArgs \X GeomArgs)

HGeometry ==
    /\ harith.op = "geometry" /\ ~harith.done
    /\ LET width == harith.a[1]
           height == harith.a[2]
       IN  IF harith.checks
              /\ (align16_overflows(width % U16) \/ align16_overflows(height % U16))
           THEN ArithDone(TRUE, << >>)
           ELSE ArithDone(FALSE, <<FrameInfo(width, height), FrameInfo(width, height),
                                   FrameInfo(width, height)>>)

GeometrySpec == GeometryInit /\ [][HGeometry]_vars

\* MFX_MAKEFOURCC on every 4-tuple of the 8-bit codes in Codes: the two
\* ends of the range, their neighbours, and the characters of the two
\* FourCCs of constants.rs; r = <<the FourCC>>
Codes == {0, 1, 49, 50, 78, 86, 89, 254, 255}

FourCCInit == ArithInit("fourcc", Codes \X Codes \X Codes \X Codes)

HFourCC ==
    /\ harith.op = "fourcc" /\ ~harith.done
    /\ LET t == harith.a IN
          IF harith.checks /\ MFX_MAKEFOURCC_overflows(t[1], t[2], t[3], t[4])
          THEN ArithDone(TRUE, << >>)
          ELSE ArithDone(FALSE, <<MFX_MAKEFOURCC(t[1], t[2], t[3], t[4])>>)

FourCCSpec == FourCCInit /\ [][HFourCC]_vars

(***************************************************************************)
(* Properties.                                                             *)
(***************************************************************************)
(***************************************************************************)
(* The byte ranges main's pools and the driver's writes come to, for the   *)
(* widths and heights of GeomArgs of which one is, as a u16, at most       *)
(* MaxGeom, and pools of LayoutPool surfaces.  A range is <<first, end>>,  *)
(* offsets into the pool's backing buffer, the end exclusive.  r holds for *)
(* each pool the bytes one surface gets and, for each surface, the ranges  *)
(* of the slices the driver builds at its plane pointers: LoadRawFrame on  *)
(* a VPP input surface, VppToEncSurface from a VPP output surface to an    *)
(* Encode surface.  encRequest.Info is the frame info of EncParams.        *)
(***************************************************************************)
LayoutPool == 2
LayoutArgs == {a \in GeomArgs \X GeomArgs : a[1] % U16 <= MaxGeom \/ a[2] % U16 <= MaxGeom}

LayoutInit == ArithInit("layout", LayoutArgs)

\* the slices of LoadRawFrame, main.rs 911-934
LoadRanges(info, ptr) ==
    LET size == info.CropW * info.CropH
        size_uv == size \div 4
    IN  {<<ptr.Y, ptr.Y + size>>, <<ptr.UV, ptr.UV + size_uv>>, <<ptr.V, ptr.V + size_uv>>}

\* the range ptr::copy reads or writes in VppToEncSurface, main.rs 971-974
CopyRange(info, ptr) == {<<ptr.Y, ptr.Y + CopySize(info)>>}

HLayout ==
    /\ harith.op = "layout" /\ ~harith.done
    /\ LET width == harith.a[1]
           height == harith.a[2]
           info == FrameInfo(width, height)
           w == Aligned32(info.Width)
           h == Aligned32(info.Height)
           planar == PlanarPtrs(LayoutPool, w, h)
           interleaved == InterleavedPtrs(LayoutPool, w, h)
       IN  IF harith.checks
              /\ (align16_overflows(width % U16) \/ align16_overflows(height % U16))
           THEN ArithDone(TRUE, << >>)
           ELSE ArithDone(FALSE,
                    [In |-> [size |-> SurfaceSize(w, h),
                             ranges |-> [i \in 0..(LayoutPool - 1) |->
                                            LoadRanges(info, planar[i])]],
                     Out |-> [size |-> SurfaceSize(w, h),
                              ranges |-> [i \in 0..(LayoutPool - 1) |->
                                             CopyRange(info, interleaved[i])]],
                     Enc |-> [size |-> SurfaceSize(w, h),
                              ranges |-> [i \in 0..(LayoutPool - 1) |->
                                             CopyRange(info, interleaved[i])]]])

LayoutSpec == LayoutInit /\ [][HLayout]_vars

IsFree(surfaces, i) == surfaces[i + 1].Locked = 0
LowestFree(surfaces, i) ==
    /\ i \in 0..(Len(surfaces) - 1)
    /\ IsFree(surfaces, i)
    /\ \A j \in 0..(i - 1) : ~IsFree(surfaces, j)
FreeCount(surfaces) == Cardinality({i \in 0..(Len(surfaces) - 1) : IsFree(surfaces, i)})

\* C1: a successful GetFreeSurfaceIndex returns the lowest index whose
\* surface has Locked = 0 (so never a locked surface), and whenever surface i
\* is free and no lower surface is, the call returns Ok(i).
C1_AcquireLowestFree ==
    \A k \in 1..Len(acquired) :
        /\ acquired[k].ok => LowestFree(pool, acquired[k].idx)
        /\ \A i \in 0..(Len(pool) - 1) :
              LowestFree(pool, i) => acquired[k] = [ok |-> TRUE, idx |-> i]

\* C1 witness: surface i >= 1 was unlocked back to 0 and the next call
\* returned it
C1_Witness ==
    /\ released >= 1
    /\ Len(acquired) >= 1
    /\ acquired[1] = [ok |-> TRUE, idx |-> released]

\* C2: GetFreeSurfaceIndex answers Err(MFX_ERR_NOT_FOUND) exactly when every
\* surface of the pool has Locked > 0 (the empty pool included), and a call
\* is never held back: it can be made, and answers, in every pool state.
C2_NotFoundIffAllLocked ==
    /\ \A k \in 1..Len(acquired) :
          /\ (~acquired[k].ok) <=> (\A i \in 1..Len(pool) : pool[i].Locked > 0)
          /\ (~acquired[k].ok) => acquired[k].err = MFX_ERR_NOT_FOUND
    /\ Len(acquired) < MaxCalls => ENABLED PoolAcquire

\* C2 witness: NotFound on a pool of two or more surfaces, all locked
C2_Witness ==
    /\ Len(pool) >= 2
    /\ \E k \in 1..Len(acquired) : ~acquired[k].ok

AllFree(surfaces) == \A i \in 1..Len(surfaces) : surfaces[i].Locked = 0

\* C4: right after its construction each pool holds exactly
\* NumFrameSuggested surfaces, all with Locked = 0, and a pool's length stays
\* that for the rest of the run.
C4_PoolsConstructed ==
    /\ pc = "VPPInit" =>
          /\ Len(vpp_surfaces_in) = VPPRequest[1] /\ AllFree(vpp_surfaces_in)
          /\ Len(vpp_surfaces_out) = VPPRequest[2] /\ AllFree(vpp_surfaces_out)
    /\ pc = "EncInit" =>
          Len(enc_surfaces) = encRequest.NumFrameSuggested /\ AllFree(enc_surfaces)
    /\ pc \in {"AllocBitstream", "OpenFiles", "LoopCond", "GetSurfIn", "LoadRawFrame",
               "GetSurfOut", "RunFrameVPPAsync", "SyncVpp", "GetSurfEnc", "VppToEncSurface",
               "EncodeFrameAsync", "SyncEnc", "WriteBitStreamFrame", "AfterLoop"} =>
          /\ Len(vpp_surfaces_in) = VPPRequest[1]
          /\ Len(vpp_surfaces_out) = VPPRequest[2]
          /\ Len(enc_surfaces) = encRequest.NumFrameSuggested

C4_Witness ==
    /\ pc = "EncInit"
    /\ Len(vpp_surfaces_in) = 1 /\ Len(vpp_surfaces_out) = 2 /\ Len(enc_surfaces) = 1

\* C5: after a successful WriteBitStreamFrame the sink has received exactly
\* the DataLength bytes that start at DataOffset, DataLength is 0, and
\* DataOffset, MaxLength and the buffer contents are what they were.
C5_FlushHandsSlice ==
    hflush.res = "ok" =>
        LET b == hflush.before IN
        /\ Len(hsink) = b.DataLength
        /\ \A i \in 1..b.DataLength : hsink[i] = b.Data[b.DataOffset + i]
        /\ hbs.DataLength = 0
        /\ hbs.DataOffset = b.DataOffset
        /\ hbs.MaxLength = b.MaxLength
        /\ hbs.Data = b.Data

\* C5 witness: a successful flush of a non-empty chunk at a non-zero offset
\* whose first byte differs from the byte at the buffer's base
C5_Witness ==
    /\ hflush.res = "ok"
    /\ hflush.before.DataOffset > 0 /\ hflush.before.DataLength > 0
    /\ hflush.before.Data[1] # hflush.before.Data[hflush.before.DataOffset + 1]

\* C6: when the sink takes fewer bytes than DataLength, WriteBitStreamFrame
\* fails with InvalidData, leaves the bitstream (DataLength and DataOffset
\* included) as it was, and the sink holds just the bytes it took: nothing
\* is written again.
C6_ShortWriteInvalidData ==
    (hflush.res # "none" /\ hflush.n >= 0 /\ hflush.n < hflush.before.DataLength) =>
        /\ hflush.res = "InvalidData"
        /\ hbs = hflush.before
        /\ hsink = SubSeq(BitstreamSlice(hflush.before), 1, hflush.n)

\* C6 witness: a short write that took some, not all, of the chunk
C6_Witness ==
    /\ hflush.res = "InvalidData"
    /\ hflush.n > 0 /\ hflush.n < hflush.before.DataLength

Area(info) == info.CropW * info.CropH

\* C7: VppToEncSurface succeeds exactly when the source's CropW * CropH
\* equals the destination's; the sizes w * h * 12 / 8 it compares are equal
\* only for equal areas.
C7_CopyIffSameArea ==
    /\ hcopy.done => (hcopy.ok <=> Area(hsrc.Info) = Area(hcopy.before.Info))
    /\ hcopy.done => (hcopy.ok <=> hcopy.sts = MFX_ERR_NONE)
    /\ CopySize(hsrc.Info) = CopySize(hdst.Info) => Area(hsrc.Info) = Area(hdst.Info)

\* C7 witness: a successful copy between surfaces of different crop width
\* and equal, non-zero area
C7_Witness ==
    /\ hcopy.done /\ hcopy.ok
    /\ hsrc.Info.CropW # hcopy.before.Info.CropW
    /\ Area(hsrc.Info) > 0

CopyMismatch ==
    /\ pc = "VppToEncSurface"
    /\ Area(vpp_surfaces_out[nSurfIdxOut + 1].Info) # Area(enc_surfaces[nEncSurfIdx + 1].Info)

\* C8: when the driver's copy meets surfaces of different size, the copy
\* answers Err(MFX_ERR_UNKNOWN), no byte of either surface changes, and the
\* run ends there in failure: nothing is submitted to Encode, flushed or
\* closed afterwards.
C8_MismatchAbortsUntouched ==
    /\ [](CopyMismatch =>
            LET r == VppToEncSurface(vpp_surfaces_out[nSurfIdxOut + 1],
                                     enc_surfaces[nEncSurfIdx + 1])
            IN  ~r.ok /\ r.sts = MFX_ERR_UNKNOWN)
    /\ [][CopyMismatch =>
            /\ pc' = "done" /\ exit' = "Frame copy error"
            /\ UNCHANGED <<enc_surfaces, vpp_surfaces_out, engine, syncVars,
                           mfxBS, file_out, calls>>]_vars
    /\ [][pc # "done"]_vars

\* C8 witness: the run has ended with the copy error while a VPP output
\* surface held frame data
C8_Witness ==
    /\ pc = "done" /\ exit = "Frame copy error"
    /\ \E i \in 1..Len(vpp_surfaces_out) :
          Len(vpp_surfaces_out[i].Y) > 0 /\ vpp_surfaces_out[i].Y[1] # 0
    /\ \A i \in 1..Len(enc_surfaces) : \A j \in 1..Len(enc_surfaces[i].Y) :
          enc_surfaces[i].Y[j] = 0

\* C9 as claimed: the chunks reach the sink in the order the frames were
\* read: no byte of a later frame's chunk precedes a byte of an earlier
\* frame's chunk in the output.
C9_ChunksInFrameOrder ==
    \A i, j \in 1..Len(file_out) :
        (i < j /\ file_out[i] # 0 /\ file_out[j] # 0) => file_out[i] <= file_out[j]

\* C10 as claimed: every run that got past the setup and has ended, by end
\* of input or by a failure inside the loop, has closed Encode exactly once.
C10_EncodeClosedOnce ==
    (pc = "done" /\ exit \in LoopErrors \cup {"Ok"}) => calls.EncClose = 1

BodyPcs == {"GetSurfIn", "LoadRawFrame", "GetSurfOut", "RunFrameVPPAsync", "SyncVpp",
            "GetSurfEnc", "VppToEncSurface", "EncodeFrameAsync", "SyncEnc",
            "WriteBitStreamFrame"}

\* C11: main returns Ok exactly when the loop was left by the break after
\* LoadRawFrame answered MFX_ERR_MORE_DATA.  The loop is left for the code
\* after it either by that break (sts = MFX_ERR_MORE_DATA) or by its
\* condition failing (sts negative and not MFX_ERR_MORE_DATA), and only the
\* first of the two returns Ok; every return from inside the loop body is
\* an Err.
C11_OkIffSourceMoreData ==
    /\ [][(pc' = "AfterLoop" /\ pc # "AfterLoop") =>
            /\ pc \in {"LoadRawFrame", "LoopCond"}
            /\ pc = "LoadRawFrame" <=> sts' = MFX_ERR_MORE_DATA
            /\ pc = "LoopCond" => sts' < MFX_ERR_NONE]_vars
    /\ [][pc = "AfterLoop" =>
            /\ pc' = "done"
            /\ exit' = "Ok" <=> sts = MFX_ERR_MORE_DATA
            /\ exit' # "Ok" => exit' \in LoopErrors]_vars
    /\ [][(pc \in BodyPcs /\ pc' = "done") => exit' \in LoopErrors]_vars
    /\ [](exit = "Ok" => pc = "done")

\* C11 witness: a run that encoded a frame has ended with Ok
C11_Witness == pc = "done" /\ exit = "Ok" /\ nFrame >= 1 /\ sts = MFX_ERR_MORE_DATA

Fatal(s) == s < MFX_ERR_NONE /\ s # MFX_ERR_MORE_DATA

\* C12 as claimed: when RunFrameVPPAsync or EncodeFrameAsync answers a
\* negative status other than MFX_ERR_MORE_DATA, the driver does nothing
\* more in the loop: its next statement is the loop condition, which fails,
\* and main returns an Err.
C12_FatalStatusAborts ==
    /\ [][(pc \in {"RunFrameVPPAsync", "EncodeFrameAsync"} /\ Fatal(sts')) =>
            pc' = "LoopCond"]_vars
    /\ [][(pc = "LoopCond" /\ Fatal(sts)) => pc' = "AfterLoop"]_vars
    /\ [][(pc = "AfterLoop" /\ Fatal(sts)) => exit' \in LoopErrors]_vars

\* C13 as claimed: when MFXVideoCORE_SyncOperation, on syncp_vpp or on
\* syncp_enc, answers anything but MFX_ERR_NONE, the driver makes no copy,
\* submission or flush after it: it leaves the loop body at once, and the
\* wait is not repeated.
C13_SyncFailureFatal ==
    /\ [][(pc \in {"SyncVpp", "SyncEnc"} /\ sts' # MFX_ERR_NONE) =>
            pc' \in {"LoopCond", "AfterLoop", "done"}]_vars
    /\ [][(pc \in {"SyncVpp", "SyncEnc"}) => pc' # pc]_vars

\* C14 as claimed: LoadRawFrame answers Ok only when no read failed and
\* the three reads together took a whole frame (CropW*CropH bytes of luma
\* and twice CropW*CropH/4 bytes of chroma) from the file; every other
\* outcome is Err(MFX_ERR_MORE_DATA).
C14_LoadAllOrMoreData ==
    hload.done =>
        LET size == hload.info.CropW * hload.info.CropH
            size_uv == size \div 4
        IN  /\ hload.ok => /\ hload.errAt = 0
                           /\ hfile.pos - hload.before.pos = size + 2 * size_uv
            /\ ~hload.ok => hload.sts = MFX_ERR_MORE_DATA

\* C15 as claimed: after EncodeFrameAsync answers
\* MFX_ERR_NOT_ENOUGH_BUFFER the run is not ended: the loop condition is
\* tested and the loop goes on with the next frame.
C15_NotEnoughBufferContinues ==
    /\ [][(pc = "EncodeFrameAsync" /\ sts' = MFX_ERR_NOT_ENOUGH_BUFFER) =>
            pc' = "LoopCond" /\ exit' = "run"]_vars
    /\ [][(pc = "LoopCond" /\ sts = MFX_ERR_NOT_ENOUGH_BUFFER) => pc' = "GetSurfIn"]_vars

\* the calls made on the VPP and Encode stages
StageCalls == {"VPPQuery", "VPPQueryIOSurf", "VPPInit", "EncQuery", "EncQueryIOSurf",
               "EncInit", "RunFrameVPPAsync", "EncodeFrameAsync"}

\* C16 as claimed: a positive status answered by a call on a stage, VPP
\* Query and VPP Init included, never ends the run: main goes on to its
\* next statement.
C16_WarningsContinue ==
    [][(pc \in StageCalls /\ sts' > MFX_ERR_NONE) => (pc' # "done" /\ exit' = "run")]_vars

\* C17 as claimed: when the run ends normally the Encode stage has been
\* drained: no frame that it accepted and cached is still inside it.
C17_DrainedBeforeClose ==
    (pc = "done" /\ exit = "Ok") => engine.cached = 0

\* the operations the SDK has taken and the driver has not yet waited for
Pending == {st \in {"vpp", "enc"} : engine[st].tok # 0}

\* C18 as claimed: at most one submitted operation is not yet awaited, and
\* the driver calls RunFrameVPPAsync or EncodeFrameAsync only when none is.
C18_OneInFlight ==
    /\ Cardinality(Pending) <= 1
    /\ pc \in {"RunFrameVPPAsync", "EncodeFrameAsync"} => Pending = {}

\* C19 as claimed: the sync point the driver passes to SyncOperation is the
\* one its last submission to that stage produced, and it has not been
\* waited on before: it is never null and never one of an earlier iteration.
C19_SyncPointsFresh ==
    /\ pc = "SyncVpp" => (syncp_vpp # 0 /\ engine.vpp.tok = syncp_vpp)
    /\ pc = "SyncEnc" => (syncp_enc # 0 /\ engine.enc.tok = syncp_enc)

(***************************************************************************)
(* The runs of scenarios A and B: main() with an input of k >= 0 complete  *)
(* frames (B is k = 0, the empty file)                                     *)
(* and an SDK that answers every call with MFX_ERR_NONE, asks for at least *)
(* one surface per pool, leaves EncParams as given, and has unlocked every *)
(* surface of a pool by the time the driver next scans it; the command     *)
(* line is well formed, the files open, the sink takes all it is given and *)
(* a read fails only at the end of the input.                              *)
(***************************************************************************)
HappyStep ==
    /\ pc # "LoadRawFrame" => sts' \in {sts, MFX_ERR_NONE}
    /\ (pc = "LoadRawFrame" /\ pc' = "AfterLoop") => file_in.pos = file_in.len
    /\ pc = "ParseArgs" => pc' = "VPPQuery"
    /\ pc = "VPPQueryIOSurf" => (VPPRequest'[1] >= 1 /\ VPPRequest'[2] >= 1)
    /\ pc = "EncQuery" => EncInfo' = FrameInfo(CliWidth, CliHeight)
    /\ pc = "EncQueryIOSurf" => encRequest'.NumFrameSuggested >= 1
    /\ pc = "OpenFiles" =>
          (pc' = "LoopCond" /\ file_in'.len \in {k * FrameBytes : k \in 0..MaxFrames})
    /\ pc = "WriteBitStreamFrame" => pc' = "LoopCond"
    /\ (pc = "GetSurfIn" /\ pc' # pc) => AllFree(vpp_surfaces_in)
    /\ (pc = "GetSurfOut" /\ pc' # pc) => AllFree(vpp_surfaces_out)
    /\ (pc = "GetSurfEnc" /\ pc' # pc) => AllFree(enc_surfaces)

HappyNext ==
    \/ (MFXInit /\ HappyStep)
    \/ (ParseArgs /\ HappyStep)
    \/ (VPPQuery /\ HappyStep)
    \/ (VPPQueryIOSurf /\ HappyStep)
    \/ (AllocVpp /\ HappyStep)
    \/ (VPPInit /\ HappyStep)
    \/ (EncQuery /\ HappyStep)
    \/ (EncQueryIOSurf /\ HappyStep)
    \/ (AllocEnc /\ HappyStep)
    \/ (EncInit /\ HappyStep)
    \/ (AllocBitstream /\ HappyStep)
    \/ (OpenFiles /\ HappyStep)
    \/ (LoopCond /\ HappyStep)
    \/ (EngineUnlock /\ HappyStep)
    \/ (GetSurfIn /\ HappyStep)
    \/ (LoadFrame /\ HappyStep)
    \/ (GetSurfOut /\ HappyStep)
    \/ (RunFrameVPPAsync /\ HappyStep)
    \/ (SyncVpp /\ HappyStep)
    \/ (GetSurfEnc /\ HappyStep)
    \/ (VppToEnc /\ HappyStep)
    \/ (EncodeFrameAsync /\ HappyStep)
    \/ (SyncEnc /\ HappyStep)
    \/ (WriteBitStream /\ HappyStep)
    \/ (AfterLoop /\ HappyStep)

HappySpec == Init /\ [][HappyNext]_vars /\ WF_vars(HappyNext)

\* C20: in scenario A, with an input of k >= 1 complete frames, the run
\* terminates, and when it has, main has returned Ok, all k frames and no
\* more were loaded and submitted, nFrame = k, the whole input was read,
\* and the output holds the chunks of frames 1..k in that order.
C20_HappyRunEncodesAll ==
    /\ []((pc = "done" /\ file_in.len > 0) =>
            LET k == file_in.len \div FrameBytes IN
            /\ exit = "Ok" /\ sts = MFX_ERR_MORE_DATA
            /\ k >= 1 /\ nFrame = k /\ engine.loaded = k
            /\ file_in.pos = file_in.len
            /\ {file_out[i] : i \in 1..Len(file_out)} = 1..k
            /\ \A i, j \in 1..Len(file_out) : i < j => file_out[i] <= file_out[j]
            /\ Pending = {} /\ engine.cached = 0)
    /\ <>(pc = "done")

\* C20 witness: a run over two frames has ended
C20_Witness ==
    /\ pc = "done" /\ exit = "Ok" /\ nFrame = 2 /\ file_in.len = 2 * FrameBytes
    /\ Len(file_out) >= 2

\* the statements of the loop body after the break that follows LoadRawFrame
AfterLoadPcs == BodyPcs \ {"GetSurfIn", "LoadRawFrame"}

\* C21: in scenario B, the input file of length 0, the first LoadRawFrame
\* answers Err(MFX_ERR_MORE_DATA) and the loop is left by the break: the
\* driver never reaches a submission, sync, copy or flush, nothing is written
\* to the output, and the run terminates with nFrame = 0 and Ok.
C21_EmptyInputEndsOk ==
    /\ [][(pc = "LoadRawFrame" /\ file_in.len = 0) =>
            (pc' = "AfterLoop" /\ sts' = MFX_ERR_MORE_DATA)]_vars
    /\ [](file_in.len = 0 =>
            /\ pc \notin AfterLoadPcs
            /\ nFrame = 0 /\ file_out = << >>
            /\ engine.loaded = 0 /\ engine.cached = 0 /\ Pending = {}
            /\ pc = "done" => (exit = "Ok" /\ sts = MFX_ERR_MORE_DATA))
    /\ <>(pc = "done")

\* C21 witness: the run over the empty file has ended after its one read
C21_Witness ==
    /\ pc = "done" /\ exit = "Ok" /\ file_in.len = 0 /\ file_in.max = 0
    /\ Len(vpp_surfaces_in) >= 1 /\ calls.EncClose = 1

\* the pool that the acquire at statement p scans
PoolAt(p) ==
    CASE p = "GetSurfIn" -> vpp_surfaces_in
      [] p = "GetSurfOut" -> vpp_surfaces_out
      [] OTHER -> enc_surfaces

AcquirePcs == {"GetSurfIn", "GetSurfOut", "GetSurfEnc"}

\* C22: when GetFreeSurfaceIndex answers NotFound for the VPP input, the VPP
\* output or the Encode pool, main returns Err("Memory allocation error")
\* in that very step: nothing is read, submitted, waited for, copied or
\* flushed by it or after it, and the acquire is not tried again.
C22_NotFoundEndsRun ==
    /\ [][(pc \in AcquirePcs /\ pc' # pc /\ ~GetFreeSurfaceIndex(PoolAt(pc)).ok) =>
            /\ pc' = "done" /\ exit' = "Memory allocation error"
            /\ UNCHANGED <<sts, poolsVars, ioVars, syncVars, nFrame, engine, calls>>]_vars
    /\ [][(pc \in AcquirePcs /\ pc' = "done") => ~GetFreeSurfaceIndex(PoolAt(pc)).ok]_vars
    /\ [][pc = "done" => FALSE]_vars

\* C22 witness: the run has ended on the Encode acquire: every Encode
\* surface is locked while both VPP pools have a free surface
C22_Witness ==
    /\ pc = "done" /\ exit = "Memory allocation error"
    /\ Len(enc_surfaces) >= 1 /\ ~GetFreeSurfaceIndex(enc_surfaces).ok
    /\ GetFreeSurfaceIndex(vpp_surfaces_in).ok /\ GetFreeSurfaceIndex(vpp_surfaces_out).ok

\* C23 as claimed: for every u16 x, align16(x) returns a value that is at
\* least x, is a multiple of 16, and is a fixed point of align16.
C23_Align16 ==
    harith.done =>
        /\ ~harith.panic
        /\ harith.r[1] >= harith.a[1]
        /\ harith.r[1] % 16 = 0
        /\ harith.r[2] = harith.r[1]

\* a >= b for two u32 values
Geq32(a, b) == a.hi > b.hi \/ (a.hi = b.hi /\ a.lo >= b.lo)

\* C24 as claimed: for every u32 x, align32(x) returns a value that is at
\* least x, is a multiple of 32, and is a fixed point of align32.
C24_Align32 ==
    harith.done =>
        /\ ~harith.panic
        /\ Geq32(harith.r[1], harith.a[1])
        /\ harith.r[1].lo % 32 = 0
        /\ harith.r[2] = harith.r[1]

\* C25 as claimed: each mfxFrameInfo main builds (VPP input, VPP output,
\* Encode) has Width >= CropW and Height >= CropH, whatever width and height
\* the command line gave.
C25_AlignedCoversCrop ==
    (harith.op = "geometry" /\ harith.done /\ ~harith.panic) =>
        \A i \in 1..3 :
            /\ harith.r[i].Width >= harith.r[i].CropW
            /\ harith.r[i].Height >= harith.r[i].CropH

\* the four bytes of a u32, lowest first
Unpack(v) == <<v.lo % 256, v.lo \div 256, v.hi % 256, v.hi \div 256>>

\* C26: MFX_MAKEFOURCC(a, b, c, d) on 8-bit codes is the u32 whose bytes,
\* lowest first, are a, b, c, d: a + (b << 8) + (c << 16) + (d << 24) with no
\* overflow.  So the codes are read back from the value and two different
\* 4-tuples never give the same FourCC; ('N','V','1','2') gives 0x3231564e
\* and ('Y','V','1','2') gives 0x32315659.
C26_FourCCLittleEndian ==
    /\ (harith.op = "fourcc" /\ harith.done) =>
          /\ ~harith.panic
          /\ harith.r[1] = [hi |-> harith.a[3] + harith.a[4] * 256,
                            lo |-> harith.a[1] + harith.a[2] * 256]
          /\ Unpack(harith.r[1]) = harith.a
    /\ MFX_FOURCC_NV12 = [hi |-> 12849, lo |-> 22094]
    /\ MFX_FOURCC_YV12 = [hi |-> 12849, lo |-> 22105]

\* C26 witness: the macro has been applied to ('N', 'V', '1', '2')
C26_Witness ==
    /\ harith.op = "fourcc" /\ harith.done /\ harith.a = <<78, 86, 49, 50>>
    /\ harith.r = <<MFX_FOURCC_NV12>>

\* the bytes each surface of a pool gets from its backing buffer
SizeIn == SurfaceSize(Aligned32(VppInInfo.Width), Aligned32(VppInInfo.Height))
SizeOut == SurfaceSize(Aligned32(VppOutInfo.Width), Aligned32(VppOutInfo.Height))
SizeEnc == SurfaceSize(Aligned32(encRequest.Info.Width), Aligned32(encRequest.Info.Height))

\* the statements before the VPP pools, and before the Encode pool, exist
PreVpp == {"MFXInit", "ParseArgs", "VPPQuery", "VPPQueryIOSurf", "AllocVpp"}
PreEnc == PreVpp \cup {"VPPInit", "EncQuery", "EncQueryIOSurf", "AllocEnc"}

\* a pool in a buffer of buflen bytes, size bytes per surface: the buffer
\* has exactly count * size bytes, surface i starts at i * size, the
\* surfaces' regions lie inside the buffer and no two of them overlap
LaidOut(surfaces, buflen, size) ==
    /\ buflen = Len(surfaces) * size
    /\ \A i \in 1..Len(surfaces) :
          /\ surfaces[i].Ptr.Y = (i - 1) * size
          /\ surfaces[i].Ptr.Y >= 0 /\ surfaces[i].Ptr.Y + size <= buflen
    /\ \A i, j \in 1..Len(surfaces) :
          i # j => \/ surfaces[i].Ptr.Y + size <= surfaces[j].Ptr.Y
                   \/ surfaces[j].Ptr.Y + size <= surfaces[i].Ptr.Y

Ptrs(surfaces) == [i \in 1..Len(surfaces) |-> surfaces[i].Ptr]

\* C27: once a pool is built, its backing buffer has exactly
\* count * (aligned width * aligned height * 12 / 8) bytes, with the
\* 32-aligned dimensions its allocation uses; surface i's base pointer is
\* i * that size into it, so the surfaces' regions are inside the buffer
\* and pairwise disjoint; and after the allocation no buffer changes its
\* length and no surface its pointers.
C27_PoolsLaidOut ==
    /\ [](pc \notin PreVpp =>
            /\ LaidOut(vpp_surfaces_in, surface_buffers.In, SizeIn)
            /\ LaidOut(vpp_surfaces_out, surface_buffers.Out, SizeOut))
    /\ [](pc \notin PreEnc => LaidOut(enc_surfaces, surface_buffers.Enc, SizeEnc))
    /\ [][pc # "AllocVpp" =>
            /\ surface_buffers'.In = surface_buffers.In
            /\ surface_buffers'.Out = surface_buffers.Out
            /\ Ptrs(vpp_surfaces_in') = Ptrs(vpp_surfaces_in)
            /\ Ptrs(vpp_surfaces_out') = Ptrs(vpp_surfaces_out)]_vars
    /\ [][pc # "AllocEnc" =>
            /\ surface_buffers'.Enc = surface_buffers.Enc
            /\ Ptrs(enc_surfaces') = Ptrs(enc_surfaces)]_vars

\* C27 witness: a run that encoded a frame has ended with two VPP output
\* surfaces in a non-empty buffer
C27_Witness ==
    /\ pc = "done" /\ exit = "Ok" /\ nFrame >= 1
    /\ Len(vpp_surfaces_out) = 2 /\ SizeOut > 0
    /\ vpp_surfaces_out[2].Ptr.Y = SizeOut
    /\ Len(enc_surfaces) >= 1 /\ SizeEnc > 0

\* width * height of a pool's luma plane, in the 32-aligned dimensions
LumaIn == Aligned32(VppInInfo.Width) * Aligned32(VppInInfo.Height)
LumaOut == Aligned32(VppOutInfo.Width) * Aligned32(VppOutInfo.Height)
LumaEnc == Aligned32(encRequest.Info.Width) * Aligned32(encRequest.Info.Height)

\* surface i of a pool: Y at the surface's base, UV right after the luma
\* plane, V gap bytes after UV
PlanesAt(surfaces, size, luma, gap) ==
    \A i \in 1..Len(surfaces) :
        /\ surfaces[i].Ptr.Y = (i - 1) * size
        /\ surfaces[i].Ptr.UV = surfaces[i].Ptr.Y + luma
        /\ surfaces[i].Ptr.V = surfaces[i].Ptr.UV + gap

\* C28 as claimed: in every surface of all three pools the second chroma
\* plane starts a quarter of the luma plane's bytes after the first.
C28_ChromaQuarterApart ==
    /\ PlanesAt(vpp_surfaces_in, SizeIn, LumaIn, LumaIn \div 4)
    /\ PlanesAt(vpp_surfaces_out, SizeOut, LumaOut, LumaOut \div 4)
    /\ PlanesAt(enc_surfaces, SizeEnc, LumaEnc, LumaEnc \div 4)

\* C28 amended: in every surface of all three pools Y is the surface's base
\* and UV is right after the luma plane; V is a quarter of the luma plane's
\* bytes after UV in the VPP input pool (planar YV12), and one byte after UV
\* in the VPP output and the Encode pool (NV12, chroma interleaved).
C28_PlanePointers ==
    /\ PlanesAt(vpp_surfaces_in, SizeIn, LumaIn, LumaIn \div 4)
    /\ PlanesAt(vpp_surfaces_out, SizeOut, LumaOut, 1)
    /\ PlanesAt(enc_surfaces, SizeEnc, LumaEnc, 1)

\* C28 witness: the three pools are built, none is empty and the luma
\* planes are not
C28_Witness ==
    /\ pc = "EncInit"
    /\ Len(vpp_surfaces_in) >= 1 /\ Len(vpp_surfaces_out) = 2 /\ Len(enc_surfaces) >= 1
    /\ LumaIn > 4 /\ LumaOut > 4 /\ LumaEnc > 4

\* C29: after a successful VppToEncSurface the first CropW * CropH * 12 / 8
\* bytes at the destination's base pointer are the bytes at the source's
\* base pointer, every later byte at the destination is what it was, the
\* destination's Info and lock counter are untouched, and the source
\* surface is never changed.
C29_CopyIsFlatPrefix ==
    /\ []((hcopy.done /\ hcopy.ok) =>
            LET n == (Area(hsrc.Info) * 12) \div 8 IN
            /\ Len(hdst.Y) = Len(hcopy.before.Y)
            /\ \A i \in 1..Len(hdst.Y) :
                  hdst.Y[i] = IF i <= n THEN hsrc.Y[i] ELSE hcopy.before.Y[i]
            /\ hdst.Info = hcopy.before.Info /\ hdst.Locked = hcopy.before.Locked)
    /\ [][hsrc' = hsrc]_vars

\* C29 witness: a successful copy of a non-empty crop that changed the
\* destination, where the byte after the copied range differs between the
\* two surfaces
C29_Witness ==
    /\ hcopy.done /\ hcopy.ok /\ CopySize(hsrc.Info) >= 2
    /\ hdst.Y # hcopy.before.Y
    /\ hcopy.before.Y[CopySize(hsrc.Info) + 1] # hsrc.Y[CopySize(hsrc.Info) + 1]

\* C30: when MFXVideoVPP_RunFrameVPPAsync answers MFX_ERR_MORE_DATA the
\* driver goes straight to the loop condition: that step waits for nothing,
\* copies, submits and flushes nothing and does not end the run; the
\* condition holds for MFX_ERR_MORE_DATA, and the next statement is the
\* acquire of a VPP input surface, followed (when a surface is free) by the
\* read of the next frame.
C30_VppMoreDataContinues ==
    /\ [][(pc = "RunFrameVPPAsync" /\ sts' = MFX_ERR_MORE_DATA) =>
            /\ pc' = "LoopCond" /\ exit' = "run"
            /\ UNCHANGED <<syncVars, enc_surfaces, vpp_surfaces_out, mfxBS, file_out,
                           file_in, nFrame, engine, calls>>]_vars
    /\ [][(pc = "LoopCond" /\ sts = MFX_ERR_MORE_DATA) =>
            (pc' = "GetSurfIn" /\ exit' = "run" /\ sts' = sts)]_vars
    /\ [][(pc = "GetSurfIn" /\ pc' # pc /\ GetFreeSurfaceIndex(vpp_surfaces_in).ok) =>
            (pc' = "LoadRawFrame" /\ sts' = sts)]_vars

\* C30 witness: the driver is about to read frame 2 after VPP asked for more
\* data on frame 1 (nothing was cached by Encode, so the status is VPP's)
C30_Witness ==
    /\ pc = "LoadRawFrame" /\ sts = MFX_ERR_MORE_DATA
    /\ engine.loaded = 1 /\ engine.cached = 0 /\ nFrame = 0 /\ Pending = {}

\* C31: the Encode sync, the flush of the bitstream and nFrame += 1 are
\* made exactly when EncodeFrameAsync answered MFX_ERR_NONE.  After any
\* other answer the body ends with nothing waited for, counted or written;
\* after a warning the loop goes on with the next iteration.  So nFrame is
\* the number of EncodeFrameAsync calls that answered MFX_ERR_NONE (at the
\* sync itself, which the increment follows, it is one behind).
C31_CountsEncodeSuccesses ==
    /\ [][(pc = "EncodeFrameAsync") =>
            /\ pc' = IF sts' = MFX_ERR_NONE THEN "SyncEnc" ELSE "LoopCond"
            /\ exit' = "run"
            /\ nFrame' = nFrame /\ mfxBS' = mfxBS /\ file_out' = file_out]_vars
    /\ [][(pc = "LoopCond" /\ sts > MFX_ERR_NONE) => pc' = "GetSurfIn"]_vars
    /\ [][(pc' = "SyncEnc" /\ pc # "SyncEnc") =>
            (pc = "EncodeFrameAsync" /\ sts' = MFX_ERR_NONE)]_vars
    /\ [][(pc = "SyncEnc") => (pc' = "WriteBitStreamFrame" /\ nFrame' = nFrame + 1)]_vars
    /\ [][(pc' = "WriteBitStreamFrame" /\ pc # "WriteBitStreamFrame") => pc = "SyncEnc"]_vars
    /\ [][(nFrame' # nFrame) => pc = "SyncEnc"]_vars
    /\ [][(file_out' # file_out) => pc = "WriteBitStreamFrame"]_vars
    /\ [](nFrame + (IF pc = "SyncEnc" THEN 1 ELSE 0) = calls.EncOk)

\* C31 witness: frame 1 was encoded and counted, then EncodeFrameAsync
\* answered a warning for frame 2 and the loop condition is tested again
C31_Witness ==
    /\ pc = "LoopCond" /\ sts = MFX_WRN_PARTIAL_ACCELERATION
    /\ nFrame = 1 /\ calls.EncOk = 1 /\ engine.loaded = 2

\* the statement main reaches a setup statement from
SetupOrder ==
    [VPPQueryIOSurf |-> "VPPQuery", AllocVpp |-> "VPPQueryIOSurf", VPPInit |-> "AllocVpp",
     EncQuery |-> "VPPInit", EncQueryIOSurf |-> "EncQuery", AllocEnc |-> "EncQueryIOSurf",
     EncInit |-> "AllocEnc"]

\* C32: on each stage the setup calls are made in the order Query,
\* QueryIOSurf, construction of the stage's pools, Init: each of these
\* statements is reached from the one before it only, and the pools are
\* empty until their construction.  Init is called at most once on each
\* stage, and RunFrameVPPAsync and EncodeFrameAsync are called only after
\* the Init of their stage.
C32_SetupOrder ==
    /\ [][(pc' # pc /\ pc' \in DOMAIN SetupOrder) => pc = SetupOrder[pc']]_vars
    /\ [](pc \in {"MFXInit", "ParseArgs", "VPPQuery", "VPPQueryIOSurf", "AllocVpp"} =>
            (vpp_surfaces_in = << >> /\ vpp_surfaces_out = << >> /\ calls.VppInit = 0))
    /\ [](pc \in {"MFXInit", "ParseArgs", "VPPQuery", "VPPQueryIOSurf", "AllocVpp", "VPPInit",
                  "EncQuery", "EncQueryIOSurf", "AllocEnc"} =>
            (enc_surfaces = << >> /\ calls.EncInit = 0))
    /\ [][(calls'.VppInit # calls.VppInit) =>
            (pc = "VPPInit" /\ calls.VppInit = 0 /\ calls'.VppInit = 1)]_vars
    /\ [][(calls'.EncInit # calls.EncInit) =>
            (pc = "EncInit" /\ calls.EncInit = 0 /\ calls'.EncInit = 1)]_vars
    /\ [](calls.VppInit <= 1 /\ calls.EncInit <= 1)
    /\ [](pc = "RunFrameVPPAsync" => calls.VppInit = 1)
    /\ [](pc = "EncodeFrameAsync" => (calls.VppInit = 1 /\ calls.EncInit = 1))

\* C32 witness: both stages are set up, their pools are built and a frame
\* is about to be submitted to Encode
C32_Witness ==
    /\ pc = "EncodeFrameAsync" /\ calls.VppInit = 1 /\ calls.EncInit = 1
    /\ Len(vpp_surfaces_in) >= 1 /\ Len(vpp_surfaces_out) >= 1 /\ Len(enc_surfaces) >= 1

\* C33 as claimed: when main returns Ok (the loop was left by the break
\* after LoadRawFrame answered MFX_ERR_MORE_DATA), Close has been called
\* on the VPP stage and on the Encode stage.
C33_BothStagesClosed ==
    (pc = "done" /\ exit = "Ok") => (calls.VppClose >= 1 /\ calls.EncClose >= 1)

\* C34 as claimed: the bitstream is flushed to the sink only after the
\* Encode sync of that submission answered MFX_ERR_NONE: when the sync
\* answers anything else, WriteBitStreamFrame is not called for the frame,
\* the sink is left as it is and nFrame is not advanced.
C34_FlushOnlyAfterSyncSuccess ==
    /\ [][(pc = "SyncEnc" /\ sts' # MFX_ERR_NONE) =>
            (nFrame' = nFrame /\ pc' # "WriteBitStreamFrame")]_vars
    /\ [][(pc = "WriteBitStreamFrame") => sts = MFX_ERR_NONE]_vars

(***************************************************************************)
(* main() when every call returns: each statement of main is taken in the  *)
(* end.  Nothing is asked of the SDK's threads, which may unlock surfaces  *)
(* or not.                                                                 *)
(***************************************************************************)
FairSpec == Init /\ [][Next]_vars /\ WF_vars(Setup \/ Loop)

\* C35: whatever the length of the input and whatever the SDK answers,
\* main comes to its end.  An iteration of the loop begins with the
\* acquisition of an input surface and LoadRawFrame, and it either leaves
\* the loop there or goes on having read at least one byte; no other
\* statement moves the file position, which never passes the file's length.
C35_LoopTerminates ==
    /\ [][(pc = "LoopCond") => pc' \in {"GetSurfIn", "AfterLoop"}]_vars
    /\ [][(pc = "GetSurfIn" /\ pc' # pc) => pc' \in {"LoadRawFrame", "done"}]_vars
    /\ [][(pc = "LoadRawFrame") =>
            \/ pc' = "AfterLoop" /\ file_in'.pos >= file_in.pos
            \/ pc' = "GetSurfOut" /\ file_in'.pos > file_in.pos]_vars
    /\ [][(pc \in (BodyPcs \cup {"LoopCond", "AfterLoop"}) \ {"LoadRawFrame"}) =>
            file_in' = file_in]_vars
    /\ [](file_in.pos <= file_in.len)
    /\ [][(pc = "AfterLoop") => pc' = "done"]_vars
    /\ <>(pc = "done")

\* C35 witness: a run over the longest input has read all of it and ended
C35_Witness ==
    /\ pc = "done" /\ file_in.len = MaxFrames * FrameBytes + LumaBytes
    /\ file_in.pos = file_in.len /\ engine.loaded = MaxFrames

\* the lock counters of a pool, and of the three pools
Locks(surfaces) == [i \in 1..Len(surfaces) |-> surfaces[i].Locked]
AllLocks == <<Locks(vpp_surfaces_in), Locks(vpp_surfaces_out), Locks(enc_surfaces)>>

\* the statements of the loop that are the driver's own operations
DriverOps == {"GetSurfIn", "GetSurfOut", "GetSurfEnc", "LoadRawFrame", "VppToEncSurface",
              "WriteBitStreamFrame"}

\* C36: GetFreeSurfaceIndex, LoadRawFrame, VppToEncSurface and
\* WriteBitStreamFrame leave every surface's Locked and the bitstream's
\* DataOffset as they are: the surface just acquired still has Locked = 0.
\* Past the construction of the pools the lock counters change only in the
\* SDK (RunFrameVPPAsync, EncodeFrameAsync, an unlock from its threads),
\* and DataOffset is 0 throughout.
C36_DriverLeavesLocksAndOffset ==
    /\ [][(pc \in DriverOps /\ pc' # pc) =>
            (AllLocks' = AllLocks /\ mfxBS'.DataOffset = mfxBS.DataOffset)]_vars
    /\ [](pc = "LoadRawFrame" => vpp_surfaces_in[nSurfIdxIn + 1].Locked = 0)
    /\ [](pc = "RunFrameVPPAsync" => vpp_surfaces_out[nSurfIdxOut + 1].Locked = 0)
    /\ [](pc = "VppToEncSurface" => enc_surfaces[nEncSurfIdx + 1].Locked = 0)
    /\ [][(AllLocks' # AllLocks) =>
            (pc \in {"AllocVpp", "AllocEnc", "RunFrameVPPAsync", "EncodeFrameAsync"} \/ pc' = pc)]_vars
    /\ [](mfxBS.DataOffset = 0)

\* C36 witness: in the second iteration, with surfaces locked by the SDK
\* and a chunk flushed, an Encode surface has been acquired and written by
\* the copy, and its lock counter is 0
C36_Witness ==
    /\ pc = "EncodeFrameAsync" /\ nFrame = 1 /\ Len(file_out) >= 1
    /\ enc_surfaces[nEncSurfIdx + 1].Locked = 0
    /\ vpp_surfaces_out[nSurfIdxOut + 1].Locked >= 1

\* C37 as claimed: for every width and height of the command line, every
\* range the driver reads into or copies (the three slices of LoadRawFrame,
\* the source and the destination of VppToEncSurface) lies inside the part
\* of the backing buffer that its surface got, so that no write to one
\* surface reaches another surface's part.
C37_WritesInsideSlice ==
    (harith.op = "layout" /\ harith.done /\ ~harith.panic) =>
        \A p \in {"In", "Out", "Enc"} : \A i \in 0..(LayoutPool - 1) :
            \A rg \in harith.r[p].ranges[i] :
                /\ harith.r[p].size * i <= rg[1]
                /\ rg[1] <= rg[2]
                /\ rg[2] <= harith.r[p].size * (i + 1)

\* the loop condition is tested for the first time: every iteration that
\* comes back to the test has read from the input
FirstTest == pc = "LoopCond" /\ file_in.pos = 0

\* C38: the status of MFXVideoENCODE_Init is not tested where it is
\* answered; it is the value of sts when the loop condition is first
\* tested, the statements between the two leave sts alone.  With a negative
\* status other than MFX_ERR_MORE_DATA the first test fails: main goes to
\* the code after the loop and returns the Err "Encode error", with no
\* surface acquired or locked, nothing read from the input, no frame
\* submitted or counted and nothing written.  With MFX_ERR_NONE or a
\* positive status the first test enters the loop body.
C38_EncInitStatusGuardsLoop ==
    /\ [][(pc = "EncInit") => (pc' = "AllocBitstream" /\ exit' = "run")]_vars
    /\ [][(pc \in {"AllocBitstream", "OpenFiles"}) => sts' = sts]_vars
    /\ [][(pc # "LoopCond" /\ FirstTest') => pc = "OpenFiles"]_vars
    /\ [][(FirstTest /\ Fatal(sts)) =>
            (pc' = "AfterLoop" /\ UNCHANGED <<sts, poolsVars, ioVars, syncVars, nFrame, engine>>)]_vars
    /\ [][(FirstTest /\ sts >= MFX_ERR_NONE) => pc' = "GetSurfIn"]_vars
    /\ []((pc \in {"AfterLoop", "done"} /\ exit \in {"run", "Encode error"}
              /\ Fatal(sts) /\ file_in.pos = 0) =>
            /\ nFrame = 0 /\ file_out = << >> /\ engine.loaded = 0 /\ Pending = {}
            /\ calls.EncOk = 0
            /\ AllFree(vpp_surfaces_in) /\ AllFree(vpp_surfaces_out) /\ AllFree(enc_surfaces)
            /\ (pc = "done" => exit = "Encode error"))

\* C38 witness: Encode Init failed, the files were opened, and main has
\* returned its Err without having read from a non-empty input
C38_Witness ==
    /\ pc = "done" /\ exit = "Encode error" /\ sts = MFX_ERR_UNKNOWN
    /\ calls.EncInit = 1 /\ file_in.len > 0 /\ file_in.pos = 0 /\ nFrame = 0

====
